---- MODULE Spec2Model ----
(***************************************************************************)
(* The event sink of pkg/sink/sink.go: Sink.HandleEvent fans one HTTP      *)
(* event out to one goroutine per trigger of the EventListener, each       *)
(* goroutine runs Sink.processTrigger and sends one status code on the     *)
(* buffered channel `result`, and HandleEvent reduces the codes it         *)
(* receives to the status of the HTTP response (Spec, SpecWide,            *)
(* SpecDispatch, and SpecTermination under fair scheduling).               *)
(* Sink.ExecuteInterceptors with the data of the request it sends along    *)
(* the chain (SpecChain), the GitLab interceptor (SpecGitLab), the CEL     *)
(* interceptor (SpecCEL), the requests of one sink (SpecRequests), the     *)
(* objects the goroutines of an event refer to (SpecHeap), the feature     *)
(* flags (SpecFlags), the defaults of a ClusterInterceptor (SpecDefaults), *)
(* the params and resources of one trigger (SpecTemplate) and the calls of *)
(* GetSecretToken for one request (SpecSecrets) are specified on their own *)
(* inputs.                                                                 *)
(***************************************************************************)
EXTENDS Integers, Sequences, FiniteSets, Bags, TLC

(***************************************************************************)
(* Bounds of the model.                                                    *)
(***************************************************************************)
\* longest trigger list of the listeners of Spec
MaxTriggers == 2

(***************************************************************************)
(* Program constants.                                                      *)
(***************************************************************************)
\* result := make(chan int, 10)
ResultCap == 10

\* net/http status codes used by HandleEvent
StatusCreated == 201
StatusAccepted == 202
StatusUnauthorized == 401
StatusForbidden == 403
StatusInternalServerError == 500

\* template.UID(): a random suffix; two possible draws
UIDs == {"uid-a", "uid-b"}

(***************************************************************************)
(* Errors.  An error is "nil" or one of three classes: the two classes the *)
(* resource-store taxonomy (kerrors) recognises, and every other error.    *)
(***************************************************************************)
ErrClasses == {"unauthorized", "forbidden", "other"}

IsUnauthorized(err) == err = "unauthorized"

IsForbidden(err) == err = "forbidden"

(***************************************************************************)
(* Configuration: the EventListenerTriggers a listener can hold.  A        *)
(* trigger with no inline template and a TriggerRef is resolved from the   *)
(* store at dispatch time.  An interceptor is the tag of the variant set   *)
(* in its spec ("none": no variant set).                                   *)
(***************************************************************************)
InlineTrigger == [name |-> "inline", hasTemplate |-> TRUE, triggerRef |-> "",
                  interceptors |-> <<>>, docs |-> 1, serviceAccountName |-> ""]

ChainTrigger == [name |-> "chain", hasTemplate |-> TRUE, triggerRef |-> "",
                 interceptors |-> <<"github", "webhook">>, docs |-> 2,
                 serviceAccountName |-> "sa"]

RefTrigger == [name |-> "", hasTemplate |-> FALSE, triggerRef |-> "build",
               interceptors |-> <<>>, docs |-> 0, serviceAccountName |-> ""]

DeniedTrigger == [name |-> "", hasTemplate |-> FALSE, triggerRef |-> "denied",
                  interceptors |-> <<>>, docs |-> 0, serviceAccountName |-> ""]

\* a trigger that names a Trigger the store does not have
MissingTrigger == [name |-> "", hasTemplate |-> FALSE, triggerRef |-> "missing",
                   interceptors |-> <<>>, docs |-> 0, serviceAccountName |-> ""]

TriggerKinds == {InlineTrigger, ChainTrigger, RefTrigger}

\* Triggers(ns).Get(ref): the answers the store can give for a Trigger name:
\* the Trigger, or an error of any class.  "denied" is a Trigger the
\* listener's credentials may not read, "missing" one the store does not have.
GetTrigger(ref) ==
    IF ref = "denied" THEN {"unauthorized"}
    ELSE IF ref = "missing" THEN {"other"}
    ELSE {"nil"} \cup ErrClasses

\* the errors triggersv1.ToEventListenerTrigger can return: none, or an
\* error of its own, which the resource-store taxonomy does not classify
ConversionErrors == {"nil", "other"}

\* triggersv1.ToEventListenerTrigger(trigger.Spec) of the stored Trigger "build":
\* a cel interceptor, then an interceptor with no variant set
ToEventListenerTrigger(ref) ==
    [name |-> ref, hasTemplate |-> TRUE, triggerRef |-> "",
     interceptors |-> <<"cel", "none">>, docs |-> 1, serviceAccountName |-> ""]

RECURSIVE SeqsUpTo(_, _)
SeqsUpTo(S, n) ==
    IF n = 0 THEN {<<>>}
    ELSE LET shorter == SeqsUpTo(S, n - 1)
         IN  shorter \cup {Append(s, x) : s \in {q \in shorter : Len(q) = n - 1}, x \in S}

\* the listeners of Spec: every trigger list of at most MaxTriggers triggers
Listeners == SeqsUpTo(TriggerKinds, MaxTriggers)

\* a listener with more triggers than the result channel has slots
WideListener == [n \in 1..(ResultCap + 2) |-> DeniedTrigger]

VARIABLES
    nTriggers,   \* len(el.Spec.Triggers) of the EventListener the request is for
    todo,        \* the triggers of el.Spec.Triggers the spawn loop has yet to reach
    pc,          \* position of HandleEvent
    infraErr,    \* the failed step, "lookup" or "read", of a request given up
    eventID,     \* eventID ("" before it is minted)
    resultCap,   \* capacity of the channel result (0 before make)
    result,      \* codes buffered in the channel result
    i,           \* loop index of the receive loop
    code,        \* the aggregated code
    respStatus,  \* status committed by response.WriteHeader (0: none yet)
    respHeader,  \* response.Header(): the handler's header map
    wireHeader,  \* the headers sent with the status line
    respBody,    \* the body written to the response
    encodeErr,   \* the error of the Encode call ("none" before the call)
    workers,     \* the bag of the goroutines started, each a record of its
                 \* trigger t, position pc, index k of the next interceptor
                 \* or document, error err returned by processTrigger, code
                 \* sent, counts of its completed sends, interceptor
                 \* invocations and resources created, the index stopped of
                 \* the interceptor that answered Continue = false (0: none),
                 \* the error statusErr of that answer's Status.Err(), the
                 \* eventID it calls processTrigger with, and the event IDs
                 \* ctxIDs it has sent in the Context of interceptor requests
                 \* and labelIDs that resources.Create has labelled the
                 \* resources it created with
    received,    \* the number of codes HandleEvent has received from result
    cleanCreated, \* a 201 was received when no worker had yet sent 401 or 403
    \* one call of Sink.ExecuteInterceptors
    chain,       \* t.Interceptors
    event,       \* the event body the call is given
    inHeader,    \* in.Header, the headers of the incoming request
    request,     \* the InterceptorRequest sent along the chain
    ix,          \* the position of the loop in chain (0: before the call)
    seen,        \* what each interceptor invoked so far was given
    answers,     \* what each interceptor invoked so far answered
    ret,         \* the values the call returned (Nil: it has not returned)
    \* one call of the GitLab interceptor
    glIn,        \* the interceptor's configuration, the request and the store
    glPc,        \* the position of the call
    glFetches,   \* the number of secrets fetched from the store
    glOut,       \* what the call returned (Nil: it has not returned)
    \* one call of the CEL interceptor's Process
    celIn,       \* the request r: its body, headers and interceptor params
    celPc,       \* the position of the call
    celCtx,      \* evalContext (Nil before makeEvalContext)
    celK,        \* the index in p.Overlays of the overlay the loop is at
    celExt,      \* extensions, the JSON object under construction (Nil: nil)
    celEvals,    \* the calls of evaluate so far: expression and data
    celOut,      \* what the call returned (Nil: it has not returned)
    \* the requests the sink serves, each by its own call of HandleEvent
    reqs,        \* of every request, the position of its call and its eventID
    \* the objects the goroutines of one event hold references to
    heap,        \* the content of every object allocated so far
    hw,          \* of every goroutine, its position and the references it holds
    \* one call of NewFeatureFlagsFromMap or of setEnabledAPIFields
    ffIn,        \* the function called and its arguments
    ffFeature,   \* *feature, the string the call may set
    ffOut,       \* what the call returned (Nil: it has not returned)
    \* a ClusterInterceptor under SetDefaults
    ciIn,        \* the object before any call
    ciRuns,      \* the object after each call of SetDefaults so far
    \* one trigger's params and resources, from the bindings to the report
    tplIn,       \* the bindings, the event and the TriggerTemplate
    tplPc,       \* position of the goroutine
    tplParams,   \* what ResolveParams returned (Nil: it has not returned)
    tplUids,     \* the draws of UID() so far
    tplDocs,     \* the documents ResolveResources returned
    tplCreated,  \* how many resources the goroutine has created
    tplErr,      \* the error the goroutine returns with
    tplCode,     \* the code the goroutine reported (0: none yet)
    \* the calls of GetSecretToken for one request
    stIn,        \* the request (with a cache, without one, or nil)
    stCache,     \* the map under requestCacheKey in the request's context
    stCalls      \* of every call so far, its key, its queries and what it returned

respVars == <<respStatus, respHeader, wireHeader, respBody, encodeErr>>

loopVars == <<i, code, received, cleanCreated>>

chainVars == <<chain, event, inHeader, request, ix, seen, answers, ret>>

glVars == <<glIn, glPc, glFetches, glOut>>

\* the state of the calls that are specified on their own
celVars == <<celIn, celPc, celCtx, celK, celExt, celEvals, celOut>>

\* the state of the calls specified after those of the chain and of GitLab
heapVars == <<heap, hw>>

ffVars == <<ffIn, ffFeature, ffOut>>

ciVars == <<ciIn, ciRuns>>

tplVars == <<tplIn, tplPc, tplParams, tplUids, tplDocs, tplCreated, tplErr, tplCode>>

stVars == <<stIn, stCache, stCalls>>

moreVars == <<celVars, reqs, heapVars, ffVars, ciVars, tplVars, stVars>>

calleeVars == <<chainVars, glVars, moreVars>>

\* the state of HandleEvent and its goroutines
sinkVars == <<nTriggers, todo, pc, infraErr, eventID, resultCap, result, workers,
              respVars, loopVars>>

vars == <<sinkVars, calleeVars>>

\* all but the state of the call of the CEL interceptor
notCEL == <<sinkVars, chainVars, glVars, reqs, heapVars, ffVars, ciVars,
             tplVars, stVars>>

\* all but the state of the requests the sink serves
notReqs == <<sinkVars, chainVars, glVars, celVars, heapVars, ffVars, ciVars,
              tplVars, stVars>>

\* all but the objects of the goroutines of one event
notHeap == <<sinkVars, chainVars, glVars, celVars, reqs, ffVars, ciVars,
              tplVars, stVars>>

\* all but the state of the call of the feature flag functions
notFlags == <<sinkVars, chainVars, glVars, celVars, reqs, heapVars, ciVars,
               tplVars, stVars>>

\* all but the ClusterInterceptor under SetDefaults
notDefaults == <<sinkVars, chainVars, glVars, celVars, reqs, heapVars, ffVars,
                  tplVars, stVars>>

\* all but the params and resources of one trigger
notTemplate == <<sinkVars, chainVars, glVars, celVars, reqs, heapVars, ffVars, ciVars,
                 stVars>>

\* all but the calls of GetSecretToken
notSecrets == <<sinkVars, chainVars, glVars, celVars, reqs, heapVars, ffVars, ciVars,
                tplVars>>

N == nTriggers

\* the goroutines started, as a set of their states
Workers == BagToSet(workers)

InitWith(listeners) ==
    /\ todo \in listeners
    /\ nTriggers = Len(todo)
    /\ pc = "lookup"
    /\ infraErr = "none"
    /\ eventID = ""
    /\ resultCap = 0
    /\ result = <<>>
    /\ i = 0
    /\ code = 0
    /\ respStatus = 0
    /\ respHeader = {}
    /\ wireHeader = {}
    /\ respBody = <<>>
    /\ encodeErr = "none"
    /\ workers = EmptyBag
    /\ received = 0
    /\ cleanCreated = FALSE

\* a Go pointer, slice or map that may be nil: Nil, or Some(v)
Nil == <<>>

Some(v) == <<v>>

Val(o) == o[1]

\* map[string]interface{}{}
EmptyMap == [key \in {} |-> 0]

\* m[key] = v
MapSet(m, key, v) == [x \in DOMAIN m \cup {key} |-> IF x = key THEN v ELSE m[x]]

\* no call of ExecuteInterceptors is under way
NoChainCall ==
    /\ chain = <<>>
    /\ event = ""
    /\ inHeader = {}
    /\ request = [Body |-> "", Header |-> {}, Extensions |-> EmptyMap,
                  InterceptorParams |-> EmptyMap]
    /\ ix = 0
    /\ seen = <<>>
    /\ answers = <<>>
    /\ ret = Nil

\* no call of the GitLab interceptor is under way
NoGitLabCall ==
    /\ glIn = Nil
    /\ glPc = "idle"
    /\ glFetches = 0
    /\ glOut = Nil

\* no call of the CEL interceptor is under way
NoCELCall ==
    /\ celIn = Nil
    /\ celPc = "idle"
    /\ celCtx = Nil
    /\ celK = 0
    /\ celExt = Nil
    /\ celEvals = <<>>
    /\ celOut = Nil

\* none of the calls specified after those of the chain and of GitLab is under way
NoMoreCallsBut(group) ==
    /\ IF group = "cel" THEN TRUE ELSE NoCELCall
    /\ IF group = "reqs" THEN TRUE ELSE reqs = <<>>
    /\ IF group = "heap" THEN TRUE ELSE heap = <<>> /\ hw = <<>>
    /\ IF group = "flags" THEN TRUE ELSE ffIn = Nil /\ ffFeature = "" /\ ffOut = Nil
    /\ IF group = "defaults" THEN TRUE ELSE ciIn = Nil /\ ciRuns = <<>>
    /\ IF group = "template" THEN TRUE
       ELSE /\ tplIn = Nil /\ tplPc = "" /\ tplParams = Nil /\ tplUids = <<>>
            /\ tplDocs = <<>> /\ tplCreated = 0 /\ tplErr = "nil" /\ tplCode = 0
    /\ IF group = "secrets" THEN TRUE
       ELSE stIn = Nil /\ stCache = Nil /\ stCalls = <<>>

NoMoreCalls == NoMoreCallsBut("none")

Init == InitWith(Listeners) /\ NoChainCall /\ NoGitLabCall /\ NoMoreCalls

(***************************************************************************)
(* http.ResponseWriter.  WriteHeader commits the status line together with *)
(* the header map as it is at that moment; the header map can still be     *)
(* changed afterwards, but what was sent is not.  A body written under     *)
(* headers that carry no Content-Type is sent with the sniffed type.       *)
(***************************************************************************)
ContentType == "Content-Type"

HeaderSet(h, k, v) == {p \in h : p[1] # k} \cup {<<k, v>>}

HeaderHas(h, k) == \E p \in h : p[1] = k

Sniffed(h) ==
    IF HeaderHas(h, ContentType) THEN h
    ELSE h \cup {<<ContentType, "text/plain; charset=utf-8">>}

WriteHeaderTo(c) ==
    /\ respStatus' = (IF respStatus = 0 THEN c ELSE respStatus)
    /\ wireHeader' = (IF respStatus = 0 THEN respHeader ELSE wireHeader)

\* the Response the sink answers with
ResponseBody == [eventListener |-> "listener", namespace |-> "ns", eventID |-> eventID]

(***************************************************************************)
(* Sink.HandleEvent                                                        *)
(***************************************************************************)
\* mutant of AfterFailure: the return of the error branch is missing
AfterFailureFallsThrough == "mint"

\* where HandleEvent is after response.WriteHeader(500) in an error branch
AfterFailure == "done"

\* response.WriteHeader(http.StatusInternalServerError); return
GiveUp(step) ==
    /\ infraErr' = step
    /\ WriteHeaderTo(StatusInternalServerError)
    /\ pc' = AfterFailure

\* el, err := ...EventListeners(ns).Get(...); on error: 500 and return
GetEventListener ==
    /\ pc = "lookup"
    /\ \E err \in {"nil"} \cup ErrClasses :
          IF err # "nil"
          THEN GiveUp("lookup")
          ELSE /\ pc' = "read"
               /\ UNCHANGED <<infraErr, respStatus, wireHeader>>
    /\ UNCHANGED <<nTriggers, todo, eventID, resultCap, result, workers, respHeader,
                   respBody, encodeErr, loopVars>>
    /\ UNCHANGED calleeVars

\* event, err := ioutil.ReadAll(request.Body); on error: 500 and return
ReadBody ==
    /\ pc = "read"
    /\ \E err \in {"nil", "other"} :
          IF err # "nil"
          THEN GiveUp("read")
          ELSE /\ pc' = "mint"
               /\ UNCHANGED <<infraErr, respStatus, wireHeader>>
    /\ UNCHANGED <<nTriggers, todo, eventID, resultCap, result, workers, respHeader,
                   respBody, encodeErr, loopVars>>
    /\ UNCHANGED calleeVars

\* eventID := template.UID()
MintEventID ==
    /\ pc = "mint"
    /\ \E id \in UIDs : eventID' = id
    /\ pc' = "make"
    /\ UNCHANGED <<nTriggers, todo, infraErr, resultCap, result, workers, respVars,
                   loopVars>>
    /\ UNCHANGED calleeVars

\* result := make(chan int, 10)
MakeResult ==
    /\ pc = "make"
    /\ resultCap' = ResultCap
    /\ result' = <<>>
    /\ pc' = "spawn"
    /\ UNCHANGED <<nTriggers, todo, infraErr, eventID, workers, respVars, loopVars>>
    /\ UNCHANGED calleeVars

\* the goroutine go func(t) {...}(t) with an event ID of its own
NewWorkerOwnEventID(t) ==
    [t |-> t, pc |-> "start", k |-> 0, err |-> "none", sent |-> 0, sends |-> 0,
     calls |-> 0, created |-> 0, stopped |-> 0, statusErr |-> "none",
     eventID |-> CHOOSE id \in UIDs : id # eventID, ctxIDs |-> {}, labelIDs |-> {}]

\* the goroutine go func(t) {...}(t) as it starts; it passes the eventID of
\* HandleEvent to processTrigger
NewWorker(t) ==
    [t |-> t, pc |-> "start", k |-> 0, err |-> "none", sent |-> 0, sends |-> 0,
     calls |-> 0, created |-> 0, stopped |-> 0, statusErr |-> "none",
     eventID |-> eventID, ctxIDs |-> {}, labelIDs |-> {}]

\* for _, t := range el.Spec.Triggers { go func(t) {...}(t) }
Spawn ==
    /\ pc = "spawn"
    /\ todo # <<>>
    /\ workers' = workers (+) SetToBag({NewWorker(Head(todo))})
    /\ todo' = Tail(todo)
    /\ UNCHANGED <<nTriggers, pc, infraErr, eventID, resultCap, result, respVars,
                   loopVars>>
    /\ UNCHANGED calleeVars

\* mutant of LoopTest: the bound is off by one
LoopTestInclusive(j, n) == j <= n

\* mutant of LoopTest: the loop ends one pass early
LoopTestOneShort(j, n) == j < n - 1

\* mutant of LoopTest: the loop never ends
LoopTestNeverEnds(j, n) == TRUE

\* the loop test i < len(el.Spec.Triggers)
LoopTest(j, n) == j < n

\* code := http.StatusAccepted; for i := 0; i < len(el.Spec.Triggers); ...
StartAggregation ==
    /\ pc = "spawn"
    /\ todo = <<>>
    /\ code' = StatusAccepted
    /\ i' = 0
    /\ pc' = (IF LoopTest(0, N) THEN "recv" ELSE "respond")
    /\ UNCHANGED <<nTriggers, todo, infraErr, eventID, resultCap, result, workers,
                   respVars, received, cleanCreated>>
    /\ UNCHANGED calleeVars

\* mutant of Abort: only 401 aborts the aggregation
AbortOnUnauthorizedOnly(thiscode) == thiscode = StatusUnauthorized

\* mutant of Abort: only 403 aborts the aggregation
AbortOnForbiddenOnly(thiscode) == thiscode = StatusForbidden

\* thiscode == http.StatusUnauthorized || thiscode == http.StatusForbidden
Abort(thiscode) == thiscode = StatusUnauthorized \/ thiscode = StatusForbidden

\* mutant of Aggregate: the comparison with the code so far is missing
AggregateLastCode(old, thiscode) == thiscode

\* mutant of Aggregate: every code goes through the less-than comparison
AggregateMinOnly(old, thiscode) == IF thiscode < old THEN thiscode ELSE old

\* the code after one pass of the loop body on thiscode
Aggregate(old, thiscode) ==
    IF Abort(thiscode) THEN thiscode
    ELSE IF thiscode < old THEN thiscode ELSE old

\* some worker has completed a send of 401 or 403
AuthFailureSent ==
    \E w \in Workers : w.sends > 0 /\ (IsUnauthorized(w.err) \/ IsForbidden(w.err))

\* thiscode := <-result and the loop body, up to the next loop test
Receive ==
    /\ pc = "recv"
    /\ result # <<>>
    /\ LET thiscode == Head(result) IN
          /\ result' = Tail(result)
          /\ code' = Aggregate(code, thiscode)
          /\ received' = received + 1
          /\ cleanCreated' = (cleanCreated \/ (thiscode = StatusCreated /\ ~AuthFailureSent))
          /\ IF Abort(thiscode)
             THEN /\ i' = i
                  /\ pc' = "respond"
             ELSE /\ i' = i + 1
                  /\ pc' = (IF LoopTest(i + 1, N) THEN "recv" ELSE "respond")
    /\ UNCHANGED <<nTriggers, todo, infraErr, eventID, resultCap, workers, respVars>>
    /\ UNCHANGED calleeVars

\* response.WriteHeader(code)
WriteHeader ==
    /\ pc = "respond"
    /\ WriteHeaderTo(code)
    /\ pc' = "setHeader"
    /\ UNCHANGED <<nTriggers, todo, infraErr, eventID, resultCap, result, workers,
                   respHeader, respBody, encodeErr, loopVars>>
    /\ UNCHANGED calleeVars

\* response.Header().Set("Content-Type", "application/json")
SetContentType ==
    /\ pc = "setHeader"
    /\ respHeader' = HeaderSet(respHeader, ContentType, "application/json")
    /\ pc' = "encode"
    /\ UNCHANGED <<nTriggers, todo, infraErr, eventID, resultCap, result, workers,
                   respStatus, wireHeader, respBody, encodeErr, loopVars>>
    /\ UNCHANGED calleeVars

\* json.NewEncoder(response).Encode(body); an error is logged only
EncodeBody ==
    /\ pc = "encode"
    /\ \E err \in {"nil", "other"} :
          /\ encodeErr' = err
          /\ IF err = "nil"
             THEN /\ respBody' = <<ResponseBody>>
                  /\ wireHeader' = Sniffed(wireHeader)
             ELSE UNCHANGED <<respBody, wireHeader>>
    /\ pc' = "done"
    /\ UNCHANGED <<nTriggers, todo, infraErr, eventID, resultCap, result, workers,
                   respStatus, respHeader, loopVars>>
    /\ UNCHANGED calleeVars

(***************************************************************************)
(* The goroutine of one trigger: Sink.processTrigger, then the send of     *)
(* the status code.                                                        *)
(***************************************************************************)
\* mutant of StatusFor: the goroutine does not classify the error
StatusForAnyErrorIs202(err) == IF err # "nil" THEN StatusAccepted ELSE StatusCreated

\* mutant of StatusFor: an error of no recognised class is answered 500
StatusForOtherIs500(err) ==
    IF err # "nil"
    THEN IF IsUnauthorized(err) THEN StatusUnauthorized
         ELSE IF IsForbidden(err) THEN StatusForbidden
         ELSE StatusInternalServerError
    ELSE StatusCreated

\* the code the goroutine sends for the error processTrigger returned
StatusFor(err) ==
    IF err # "nil"
    THEN IF IsUnauthorized(err) THEN StatusUnauthorized
         ELSE IF IsForbidden(err) THEN StatusForbidden
         ELSE StatusAccepted
    ELSE StatusCreated

\* ExecuteInterceptors returns at once for a trigger without interceptors
EnterInterceptors(t) ==
    IF Len(t.interceptors) = 0 THEN "resolveTrigger" ELSE "interceptor"

\* the responses Process can give: Continue, and the error of Status.Err()
InterceptorResponses ==
    {[continue |-> TRUE, statusErr |-> "nil"],
     [continue |-> FALSE, statusErr |-> "other"],
     [continue |-> FALSE, statusErr |-> "nil"]}

\* mutant of Step: a goroutine is cancelled once the dispatcher has left the
\* receive loop
StepUnlessCancelled(w, w2) ==
    /\ pc \notin {"respond", "setHeader", "encode", "done"}
    /\ workers' = (workers (-) SetToBag({w})) (+) SetToBag({w2})

\* goroutine w takes a step to state w2
Step(w, w2) == workers' = (workers (-) SetToBag({w})) (+) SetToBag({w2})

\* mutant of Return: the error of ResolveTrigger is logged and not returned
ReturnAfterLogOnly(w, err) ==
    [w EXCEPT !.err = err,
              !.pc = IF w.pc = "resolveTrigger" THEN "resolveParams" ELSE "report"]

\* processTrigger returns err: the goroutine is at its send
Return(w, err) == [w EXCEPT !.err = err, !.pc = "report"]

\* mutant of EnterCreate: the loop over res is skipped
EnterCreateSkipsLoop(w) == Return(w, "nil")

\* CreateResources after the credentials are settled: the loop over res
EnterCreate(w) ==
    IF w.t.docs = 0 THEN Return(w, "nil")
    ELSE [w EXCEPT !.pc = "create", !.k = 1]

\* the next interceptor of the chain, or the step after the chain
NextInterceptor(w) ==
    IF w.k < Len(w.t.interceptors) THEN [w EXCEPT !.k = w.k + 1]
    ELSE [w EXCEPT !.pc = "resolveTrigger"]

\* if !iresp.Continue { return nil, nil, nil, iresp.Status.Err() }, and the
\* test of that error in processTrigger: a nil error is no failure there
NotContinue(w, statusErr) ==
    LET stop == [w EXCEPT !.stopped = w.k, !.statusErr = statusErr] IN
    IF statusErr # "nil"
    THEN Return(stop, statusErr)
    ELSE [stop EXCEPT !.pc = "resolveTrigger"]

\* localRequest := request.Clone(...); processTrigger up to ExecuteInterceptors
ResolveTriggerRef(w) ==
    /\ w.pc = "start"
    /\ IF ~w.t.hasTemplate /\ w.t.triggerRef # ""
       THEN \E err \in GetTrigger(w.t.triggerRef) :
               IF err # "nil"
               THEN Step(w, Return(w, err))
               ELSE \E cerr \in ConversionErrors :
                       IF cerr # "nil"
                       THEN Step(w, Return(w, cerr))
                       ELSE LET trig == ToEventListenerTrigger(w.t.triggerRef) IN
                            Step(w, [w EXCEPT !.t = trig, !.pc = EnterInterceptors(trig),
                                              !.k = 1])
       ELSE Step(w, [w EXCEPT !.pc = EnterInterceptors(w.t), !.k = 1])
    /\ UNCHANGED <<nTriggers, todo, pc, infraErr, eventID, resultCap, result, respVars,
                   loopVars>>
    /\ UNCHANGED calleeVars

\* one pass of the loop of ExecuteInterceptors
Intercept(w) ==
    /\ w.pc = "interceptor"
    /\ LET tag == w.t.interceptors[w.k]
           called == [w EXCEPT !.calls = w.calls + 1]
           given == [called EXCEPT !.ctxIDs = w.ctxIDs \cup {w.eventID}]
       IN  IF tag = "none"
           THEN Step(w, Return(w, "other"))
           ELSE IF tag = "webhook"
                THEN \E err \in {"nil", "other"} :
                        IF err # "nil"
                        THEN Step(w, Return(called, err))
                        ELSE Step(w, NextInterceptor(called))
                ELSE \E iresp \in InterceptorResponses :
                        IF ~iresp.continue
                        THEN Step(w, NotContinue(given, iresp.statusErr))
                        ELSE Step(w, NextInterceptor(given))
    /\ UNCHANGED <<nTriggers, todo, pc, infraErr, eventID, resultCap, result, respVars,
                   loopVars>>
    /\ UNCHANGED calleeVars

\* rt, err := template.ResolveTrigger(...)
ResolveTrigger(w) ==
    /\ w.pc = "resolveTrigger"
    /\ \E err \in {"nil"} \cup ErrClasses :
          IF err # "nil"
          THEN Step(w, Return(w, err))
          ELSE Step(w, [w EXCEPT !.pc = "resolveParams"])
    /\ UNCHANGED <<nTriggers, todo, pc, infraErr, eventID, resultCap, result, respVars,
                   loopVars>>
    /\ UNCHANGED calleeVars

\* params, err := template.ResolveParams(...); ResolveResources; CreateResources
\* up to the credential override
ResolveParams(w) ==
    /\ w.pc = "resolveParams"
    /\ \E err \in {"nil", "other"} :
          IF err # "nil"
          THEN Step(w, Return(w, err))
          ELSE IF Len(w.t.serviceAccountName) > 0
               THEN Step(w, [w EXCEPT !.pc = "auth"])
               ELSE Step(w, EnterCreate(w))
    /\ UNCHANGED <<nTriggers, todo, pc, infraErr, eventID, resultCap, result, respVars,
                   loopVars>>
    /\ UNCHANGED calleeVars

\* r.Auth.OverrideAuthentication(sa, ...)
OverrideAuthentication(w) ==
    /\ w.pc = "auth"
    /\ \E err \in {"nil"} \cup ErrClasses :
          IF err # "nil"
          THEN Step(w, Return(w, err))
          ELSE Step(w, EnterCreate(w))
    /\ UNCHANGED <<nTriggers, todo, pc, infraErr, eventID, resultCap, result, respVars,
                   loopVars>>
    /\ UNCHANGED calleeVars

\* one pass of the loop of CreateResources: resources.Create(...)
Create(w) ==
    /\ w.pc = "create"
    /\ \E err \in {"nil"} \cup ErrClasses :
          IF err # "nil"
          THEN Step(w, Return(w, err))
          ELSE LET made == [w EXCEPT !.created = w.created + 1,
                                     !.labelIDs = w.labelIDs \cup {w.eventID}] IN
               IF w.k < w.t.docs
               THEN Step(w, [made EXCEPT !.k = w.k + 1])
               ELSE Step(w, Return(made, "nil"))
    /\ UNCHANGED <<nTriggers, todo, pc, infraErr, eventID, resultCap, result, respVars,
                   loopVars>>
    /\ UNCHANGED calleeVars

\* mutant of Sent: the return after the send of 401 is missing, so the
\* goroutine goes on to the send of 202
SentWithoutReturn(w) ==
    IF IsUnauthorized(w.err) /\ w.sends = 0
    THEN [w EXCEPT !.sent = StatusUnauthorized, !.sends = 1, !.err = "other"]
    ELSE [w EXCEPT !.sent = StatusAccepted, !.sends = w.sends + 1, !.pc = "done"]

\* the goroutine after its send completed: it returns
Sent(w) == [w EXCEPT !.sent = StatusFor(w.err), !.sends = w.sends + 1, !.pc = "done"]

\* result <- code: completes when the channel has a free slot
Report(w) ==
    /\ w.pc = "report"
    /\ Len(result) < resultCap
    /\ result' = Append(result, StatusFor(w.err))
    /\ Step(w, Sent(w))
    /\ UNCHANGED <<nTriggers, todo, pc, infraErr, eventID, resultCap, respVars, loopVars>>
    /\ UNCHANGED calleeVars

Next ==
    \/ GetEventListener
    \/ ReadBody
    \/ MintEventID
    \/ MakeResult
    \/ Spawn
    \/ StartAggregation
    \/ Receive
    \/ WriteHeader
    \/ SetContentType
    \/ EncodeBody
    \/ \E w \in Workers : ResolveTriggerRef(w)
    \/ \E w \in Workers : Intercept(w)
    \/ \E w \in Workers : ResolveTrigger(w)
    \/ \E w \in Workers : ResolveParams(w)
    \/ \E w \in Workers : OverrideAuthentication(w)
    \/ \E w \in Workers : Create(w)
    \/ \E w \in Workers : Report(w)

Spec == Init /\ [][Next]_vars

\* the same program on a listener with more triggers than ResultCap
InitWide ==
    /\ InitWith({WideListener} \cup SeqsUpTo(TriggerKinds \cup {DeniedTrigger}, 1))
    /\ NoChainCall
    /\ NoGitLabCall
    /\ NoMoreCalls

SpecWide == InitWide /\ [][Next]_vars

(***************************************************************************)
(* Sink.ExecuteInterceptors with its data: the request that travels along  *)
(* the chain, what each interceptor is given and what the call returns.    *)
(* An EventInterceptor has one optional field per variant.                 *)
(***************************************************************************)
\* longest chain of interceptors of SpecChain
MaxChain == 2

EventInterceptor(wh, gh, gl, cel, bb) ==
    [Webhook |-> wh, GitHub |-> gh, GitLab |-> gl, CEL |-> cel, Bitbucket |-> bb]

SecretRef(name) == [SecretName |-> name, SecretKey |-> "token"]

\* the interceptors a trigger of SpecChain can declare
OfWebhook == EventInterceptor(Some([ObjectRef |-> "svc"]), Nil, Nil, Nil, Nil)

OfGitHub ==
    EventInterceptor(Nil, Some([SecretRef |-> Some(SecretRef("gh")),
                                EventTypes |-> Some(<<"push">>)]), Nil, Nil, Nil)

OfGitLab ==
    EventInterceptor(Nil, Nil, Some([SecretRef |-> Some(SecretRef("gl")),
                                     EventTypes |-> Nil]), Nil, Nil)

OfCEL ==
    EventInterceptor(Nil, Nil, Nil,
                     Some([Filter |-> "body.ok",
                           Overlays |-> Some(<<[Key |-> "a", Expression |-> "1"]>>)]), Nil)

OfCELNoFilter == EventInterceptor(Nil, Nil, Nil, Some([Filter |-> "", Overlays |-> Nil]), Nil)

OfBitbucket ==
    EventInterceptor(Nil, Nil, Nil, Nil, Some([SecretRef |-> Nil,
                                               EventTypes |-> Some(<<"repo:push">>)]))

\* an interceptor with no variant set
OfNothing == EventInterceptor(Nil, Nil, Nil, Nil, Nil)

Interceptors ==
    {OfWebhook, OfGitHub, OfGitLab, OfCEL, OfCELNoFilter, OfBitbucket, OfNothing}

\* the params of a provider interceptor (GitHub, GitLab, Bitbucket)
ProviderParams(p) ==
    LET withTypes == IF p.EventTypes # Nil
                     THEN MapSet(EmptyMap, "eventTypes", Val(p.EventTypes))
                     ELSE EmptyMap
    IN  IF p.SecretRef # Nil
        THEN MapSet(withTypes, "secretRef", Val(p.SecretRef))
        ELSE withTypes

\* the params of a CEL interceptor
CELParams(c) ==
    LET withFilter == IF c.Filter # ""
                      THEN MapSet(EmptyMap, "filter", c.Filter)
                      ELSE EmptyMap
    IN  IF c.Overlays # Nil
        THEN MapSet(withFilter, "overlays", Val(c.Overlays))
        ELSE withFilter

\* interceptors.GetInterceptorParams(i)
GetInterceptorParams(ic) ==
    IF ic.Webhook # Nil THEN EmptyMap
    ELSE IF ic.GitHub # Nil THEN ProviderParams(Val(ic.GitHub))
    ELSE IF ic.GitLab # Nil THEN ProviderParams(Val(ic.GitLab))
    ELSE IF ic.CEL # Nil THEN CELParams(Val(ic.CEL))
    ELSE IF ic.Bitbucket # Nil THEN ProviderParams(Val(ic.Bitbucket))
    ELSE EmptyMap

\* the switch of the loop: the interceptor built for i, "unknown" for none
InterceptorFor(ic) ==
    IF ic.Webhook # Nil THEN "webhook"
    ELSE IF ic.GitHub # Nil THEN "github"
    ELSE IF ic.GitLab # Nil THEN "gitlab"
    ELSE IF ic.CEL # Nil THEN "cel"
    ELSE IF ic.Bitbucket # Nil THEN "bitbucket"
    ELSE "unknown"

\* interceptor.(triggersv1.InterceptorInterface): all but the webhook
\* interceptor have the method Process
IsInterceptorInterface(kind) == kind # "webhook"

\* the extensions an InterceptorResponse can carry: none, or a map
ExtensionsEmitted ==
    {Nil, Some(EmptyMap), Some([key \in {"a"} |-> 1]), Some([key \in {"a", "b"} |-> 2])}

\* the answers of Process: Continue with extensions, or not, with the error
\* of Status.Err()
ProcessAnswers ==
    [Continue : {TRUE}, Extensions : ExtensionsEmitted, statusErr : {"nil"}]
        \cup [Continue : {FALSE}, Extensions : {Nil}, statusErr : {"nil", "other"}]

\* the outcomes of the webhook call and of reading the body of its response
WebhookAnswers ==
    {[err |-> "other", readErr |-> "nil", Header |-> {}, Body |-> ""],
     [err |-> "nil", readErr |-> "other", Header |-> {}, Body |-> ""]}
        \cup [err : {"nil"}, readErr : {"nil"},
              Header : {{<<"X-Hooked", "yes">>}},
              Body : {"hooked-1", "hooked-2"}]

\* http.Header.Clone(): a copy with the same content
Clone(h) == {p \in h : TRUE}

\* mutant of Merge: a key the accumulator holds keeps its value
MergeFirstWins(acc, ext) ==
    IF ext # Nil
    THEN [key \in DOMAIN acc \cup DOMAIN Val(ext) |->
             IF key \in DOMAIN acc THEN acc[key] ELSE Val(ext)[key]]
    ELSE acc

\* if iresp.Extensions != nil { for k, v := range ... { request.Extensions[k] = v } }
Merge(acc, ext) ==
    IF ext # Nil
    THEN [key \in DOMAIN acc \cup DOMAIN Val(ext) |->
             IF key \in DOMAIN Val(ext) THEN Val(ext)[key] ELSE acc[key]]
    ELSE acc

\* the four values ExecuteInterceptors returns
Returned(body, header, extensions, err) ==
    Some([body |-> body, header |-> header, extensions |-> extensions, err |-> err])

InitChain ==
    /\ InitWith({<<>>})
    /\ NoGitLabCall
    /\ NoMoreCalls
    /\ chain \in SeqsUpTo(Interceptors, MaxChain)
    /\ event \in {"event"}
    /\ inHeader \in {{<<"X-Event", "push">>}}
    /\ request = [Body |-> "", Header |-> {}, Extensions |-> EmptyMap,
                  InterceptorParams |-> EmptyMap]
    /\ ix = 0
    /\ seen = <<>>
    /\ answers = <<>>
    /\ ret = Nil

\* mutant of NoInterceptors: the test for the empty chain is missing
NoInterceptorsNever(interceptors) == FALSE

\* len(t.Interceptors) == 0
NoInterceptors(interceptors) == Len(interceptors) = 0

\* the call up to the loop: the early return, or the request of the chain
EnterChain ==
    /\ ix = 0
    /\ ret = Nil
    /\ IF NoInterceptors(chain)
       THEN /\ ret' = Returned(Some(event), Some(inHeader), Nil, "nil")
            /\ UNCHANGED <<request, ix>>
       ELSE /\ request' = [Body |-> event, Header |-> Clone(inHeader),
                           Extensions |-> EmptyMap, InterceptorParams |-> EmptyMap]
            /\ ix' = 1
            /\ ret' = ret
    /\ UNCHANGED <<chain, event, inHeader, seen, answers, glVars, moreVars, sinkVars>>

\* the loop is at an interceptor
InLoop == ret = Nil /\ ix >= 1 /\ ix <= Len(chain)

\* a pass of the loop for an interceptor with no variant set
UnknownInterceptor ==
    /\ InLoop
    /\ InterceptorFor(chain[ix]) = "unknown"
    /\ ret' = Returned(Nil, Nil, Nil, "other")
    /\ UNCHANGED <<chain, event, inHeader, request, ix, seen, answers, glVars, moreVars, sinkVars>>

\* mutant of ParamsFor: the params are those of the first interceptor
ParamsOfFirst(old, ic) == GetInterceptorParams(chain[1])

\* request.InterceptorParams = interceptors.GetInterceptorParams(i)
ParamsFor(old, ic) == GetInterceptorParams(ic)

\* a pass of the loop for an interceptor with the method Process
ProcessInterceptor ==
    /\ InLoop
    /\ InterceptorFor(chain[ix]) # "unknown"
    /\ IsInterceptorInterface(InterceptorFor(chain[ix]))
    /\ LET given == [request EXCEPT
                        !.InterceptorParams = ParamsFor(@, chain[ix])]
       IN  /\ seen' = Append(seen, given)
           /\ \E iresp \in ProcessAnswers :
                 /\ answers' = Append(answers, iresp)
                 /\ IF ~iresp.Continue
                    THEN /\ ret' = Returned(Nil, Nil, Nil, iresp.statusErr)
                         /\ request' = given
                         /\ ix' = ix
                    ELSE /\ request' =
                               [given EXCEPT
                                   !.Extensions = Merge(@, iresp.Extensions),
                                   !.InterceptorParams = EmptyMap]
                         /\ ix' = ix + 1
                         /\ ret' = ret
    /\ UNCHANGED <<chain, event, inHeader, glVars, moreVars, sinkVars>>

\* a pass of the loop for the webhook interceptor, which has ExecuteTrigger only
WebhookInterceptor ==
    /\ InLoop
    /\ InterceptorFor(chain[ix]) # "unknown"
    /\ ~IsInterceptorInterface(InterceptorFor(chain[ix]))
    /\ seen' = Append(seen, [Header |-> request.Header, Body |-> request.Body])
    /\ \E resp \in WebhookAnswers :
          /\ answers' = Append(answers, resp)
          /\ IF resp.err # "nil" \/ resp.readErr # "nil"
             THEN /\ ret' = Returned(Nil, Nil, Nil, "other")
                  /\ UNCHANGED <<request, ix>>
             ELSE /\ request' = [request EXCEPT !.Header = Clone(resp.Header),
                                                !.Body = resp.Body]
                  /\ ix' = ix + 1
                  /\ ret' = ret
    /\ UNCHANGED <<chain, event, inHeader, glVars, moreVars, sinkVars>>

\* return request.Body, request.Header, request.Extensions, nil
ReturnRequest ==
    /\ ret = Nil
    /\ ix > Len(chain)
    /\ ret' = Returned(Some(request.Body), Some(request.Header),
                       Some(request.Extensions), "nil")
    /\ UNCHANGED <<chain, event, inHeader, request, ix, seen, answers, glVars, moreVars, sinkVars>>

NextChain ==
    \/ EnterChain
    \/ UnknownInterceptor
    \/ ProcessInterceptor
    \/ WebhookInterceptor
    \/ ReturnRequest

SpecChain == InitChain /\ [][NextChain]_vars

(***************************************************************************)
(* The GitLab interceptor: ExecuteTrigger, the old calling convention, and *)
(* Process, the new one.  Header values and secrets are byte strings.      *)
(***************************************************************************)
\* the byte strings of the requests and of the store
NoBytes == <<>>

Token == <<"s", "3", "c">>

TokenPrefix == <<"s", "3">>

OtherToken == <<"w", "r", "o">>

\* what Secrets(ns).Get(name) finds: no secret (an error), a secret without
\* the key, or a secret whose key holds Token
GitLabStores == {Nil, Some(EmptyMap), Some([key \in {"token"} |-> Token])}

\* the configurations of the interceptor, the requests and the stores of
\* SpecGitLab
GitLabInputs ==
    [entry : {"ExecuteTrigger", "Process"},
     SecretRef : {Nil, Some(SecretRef("gl"))},
     EventTypes : {Nil, Some(<<>>), Some(<<"Push Hook">>)},
     token : {NoBytes, Token, TokenPrefix, OtherToken},
     gitLabEvent : {"", "Push Hook", "Tag Hook"},
     store : GitLabStores]

InitGitLab ==
    /\ InitWith({<<>>})
    /\ NoChainCall
    /\ NoMoreCalls
    /\ glIn \in GitLabInputs
    /\ glPc = "start"
    /\ glFetches = 0
    /\ glOut = Nil

\* json.Marshal(m) of a map of params: its members in the order of their keys
Marshal(m) ==
    (IF "eventTypes" \in DOMAIN m THEN <<<<"eventTypes", m["eventTypes"]>>>> ELSE <<>>)
        \o (IF "secretRef" \in DOMAIN m THEN <<<<"secretRef", m["secretRef"]>>>> ELSE <<>>)

\* json.Unmarshal(b, v): an error for a nil pointer v, whatever b is
Unmarshal(b, v) == IF v = Nil THEN "InvalidUnmarshalError" ELSE "nil"

\* the call returns a rejection: an error from ExecuteTrigger, Continue =
\* false with a status of the given code from Process
Reject(grpcCode) ==
    /\ glOut' = Some(IF glIn.entry = "Process"
                     THEN [Continue |-> FALSE, code |-> grpcCode]
                     ELSE [err |-> "error"])
    /\ glPc' = "done"

\* the call returns an acceptance: the response with the headers and body of
\* the request from ExecuteTrigger, Continue = true from Process
Pass ==
    /\ glOut' = Some(IF glIn.entry = "Process"
                     THEN [Continue |-> TRUE, code |-> "OK"]
                     ELSE [err |-> "nil"])
    /\ glPc' = "done"

\* Process up to the test of the secret: the params are marshalled and
\* unmarshalled into p, declared var p *params and never allocated
DecodeParams ==
    /\ glPc = "start"
    /\ glIn.entry = "Process"
    /\ LET b == Marshal(ProviderParams(glIn))
           p == Nil
       IN  IF Unmarshal(b, p) # "nil"
           THEN Reject("InvalidArgument")
           ELSE glPc' = "secretRef" /\ glOut' = glOut
    /\ UNCHANGED <<glIn, glFetches, chainVars, moreVars, sinkVars>>

\* ExecuteTrigger is entered
EnterExecuteTrigger ==
    /\ glPc = "start"
    /\ glIn.entry = "ExecuteTrigger"
    /\ glPc' = "secretRef"
    /\ UNCHANGED <<glIn, glFetches, glOut, chainVars, moreVars, sinkVars>>

\* mutant of HeaderMissing: the test of the empty header is missing
HeaderMissingNever(header) == FALSE

\* header == ""
HeaderMissing(header) == Len(header) = 0

\* if SecretRef != nil: the X-GitLab-Token header is read and must be set
CheckToken ==
    /\ glPc = "secretRef"
    /\ IF glIn.SecretRef # Nil
       THEN IF HeaderMissing(glIn.token)
            THEN Reject("InvalidArgument")
            ELSE glPc' = "fetch" /\ glOut' = glOut
       ELSE glPc' = "eventTypes" /\ glOut' = glOut
    /\ UNCHANGED <<glIn, glFetches, chainVars, moreVars, sinkVars>>

\* the secret is fetched from the store
FetchSecret ==
    /\ glPc = "fetch"
    /\ glFetches' = glFetches + 1
    /\ IF glIn.store = Nil
       THEN Reject("Internal")
       ELSE glPc' = "compare" /\ glOut' = glOut
    /\ UNCHANGED <<glIn, chainVars, moreVars, sinkVars>>

\* secret.Data[SecretKey]: no bytes for a key the secret does not hold
SecretToken(data, key) == IF key \in DOMAIN data THEN data[key] ELSE NoBytes

\* mutant of ConstantTimeCompare: the lengths are not compared
CompareUpToShorter(x, y) ==
    IF \A n \in 1..Len(x) : n <= Len(y) => x[n] = y[n] THEN 1 ELSE 0

\* subtle.ConstantTimeCompare(x, y): 1 if x and y have the same length and
\* the same bytes, 0 otherwise
ConstantTimeCompare(x, y) ==
    IF Len(x) # Len(y) THEN 0
    ELSE IF \A n \in 1..Len(x) : x[n] = y[n] THEN 1 ELSE 0

\* the header is compared with the secret
CompareToken ==
    /\ glPc = "compare"
    /\ LET secretToken == SecretToken(Val(glIn.store), Val(glIn.SecretRef).SecretKey)
       IN  IF ConstantTimeCompare(glIn.token, secretToken) = 0
           THEN Reject("InvalidArgument")
           ELSE glPc' = "eventTypes" /\ glOut' = glOut
    /\ UNCHANGED <<glIn, glFetches, chainVars, moreVars, sinkVars>>

\* if EventTypes != nil: the X-GitLab-Event header must be one of them
CheckEventType ==
    /\ glPc = "eventTypes"
    /\ IF glIn.EventTypes # Nil
          /\ ~\E n \in 1..Len(Val(glIn.EventTypes)) :
                  Val(glIn.EventTypes)[n] = glIn.gitLabEvent
       THEN Reject("FailedPrecondition")
       ELSE Pass
    /\ UNCHANGED <<glIn, glFetches, chainVars, moreVars, sinkVars>>

NextGitLab ==
    \/ DecodeParams
    \/ EnterExecuteTrigger
    \/ CheckToken
    \/ FetchSecret
    \/ CompareToken
    \/ CheckEventType

SpecGitLab == InitGitLab /\ [][NextGitLab]_vars

(***************************************************************************)
(* Properties                                                              *)
(***************************************************************************)
\* the listener lookup and the body read succeeded
Accepted == eventID # ""

\* the status line of the response is committed
Responded == respStatus # 0

\* the codes a goroutine can send
WorkerCodes == {StatusCreated, StatusAccepted, StatusUnauthorized, StatusForbidden}

\* HandleEvent has left the receive loop
StoppedReceiving == pc \in {"respond", "setHeader", "encode", "done"}

RECURSIVE SendsOf(_)
\* the sends completed by the goroutines of the set S of worker states
SendsOf(S) ==
    IF S = {} THEN 0
    ELSE LET w == CHOOSE x \in S : TRUE
         IN  CopiesIn(w, workers) * w.sends + SendsOf(S \ {w})

\* C1 as stated: the response is 201 iff a 201 was aggregated at a moment
\* when no worker had reported 401 or 403.
C1_Original ==
    (Responded /\ Accepted) => (respStatus = StatusCreated <=> cleanCreated)

\* C1, amended: the response is 201 iff some worker reported 201 and no
\* worker reported 401 or 403, be it before or after the 201 was aggregated.
C1_Amended ==
    (Responded /\ Accepted) =>
        (respStatus = StatusCreated <=>
            /\ \E w \in Workers : w.sends > 0 /\ w.err = "nil"
            /\ ~AuthFailureSent)

C1_Witness ==
    /\ respStatus = StatusCreated
    /\ nTriggers = 2
    /\ \E w \in Workers : w.sent = StatusAccepted

\* C2: if any worker of the event reports 401 or 403, the response status
\* is 401 or 403, in every arrival order, a 201 consumed first included.
C2_AuthFailureDominates ==
    (Responded /\ Accepted /\ \E w \in Workers : IsUnauthorized(w.err) \/ IsForbidden(w.err))
        => respStatus \in {StatusUnauthorized, StatusForbidden}

C2_Witness == respStatus = StatusForbidden /\ cleanCreated

\* C3: with zero triggers HandleEvent starts no worker, never waits on the
\* result channel, and responds 202.
C3_ZeroTriggers ==
    nTriggers = 0 =>
        /\ workers = EmptyBag
        /\ received = 0
        /\ pc # "recv"
        /\ (Responded /\ Accepted) => respStatus = StatusAccepted

C3_Witness == nTriggers = 0 /\ pc = "done" /\ respStatus = StatusAccepted

\* C4: the result channel has capacity at least N, the number of triggers.
C4_CapacityAtLeastN == resultCap # 0 => resultCap >= nTriggers

\* C5: after the dispatcher has left the receive loop no worker is blocked
\* on the result channel: nothing receives any more, so a worker at its send
\* with the channel full would stay there forever.
C5_NoWorkerBlockedForever ==
    StoppedReceiving => \A w \in Workers : w.pc = "report" => Len(result) < resultCap

\* C6: every path through processTrigger ends at the goroutine's one send:
\* a goroutine never completes a second send, it has completed exactly one
\* when it has returned, the code is 201, 202, 401 or 403, and the codes in
\* and taken from the channel are as many as the sends.
C6_OneCodePerWorker ==
    /\ \A w \in Workers :
          /\ w.sends <= 1
          /\ (w.pc = "done") <=> (w.sends = 1)
          /\ w.pc = "report" => w.err \in {"nil"} \cup ErrClasses
          /\ w.sends = 1 => w.sent \in WorkerCodes
    /\ \A n \in 1..Len(result) : result[n] \in WorkerCodes
    /\ Len(result) + received = SendsOf(Workers)

C6_Witness ==
    \E v, w \in Workers :
        /\ v.sends = 1 /\ v.sent = StatusCreated
        /\ w.sends = 1 /\ w.sent = StatusUnauthorized

\* C7: once the lookup and the body read succeeded the response status is
\* 201, 202, 401 or 403 whatever errors the triggers hit, and the code a
\* worker reports is decided by its own error alone.
C7_NoTriggerErrorFailsResponse ==
    /\ (Responded /\ Accepted) => respStatus \in WorkerCodes
    /\ \A w \in Workers : w.sends > 0 =>
          /\ (w.sent = StatusCreated) <=> (w.err = "nil")
          /\ (w.sent = StatusUnauthorized) <=> (w.err = "unauthorized")
          /\ (w.sent = StatusForbidden) <=> (w.err = "forbidden")
          /\ (w.sent = StatusAccepted) <=> (w.err = "other")

C7_Witness ==
    /\ pc = "done"
    /\ nTriggers = 2
    /\ respStatus = StatusAccepted
    /\ \A w \in Workers : w.err = "other"

\* C8: when the listener lookup or the body read fails, the response is 500,
\* no event ID is minted, and no worker is started, so that no interceptor
\* runs and no resource is created.
C8_InfrastructureFailure ==
    infraErr # "none" =>
        /\ respStatus = StatusInternalServerError
        /\ pc = "done"
        /\ eventID = ""
        /\ resultCap = 0
        /\ workers = EmptyBag
        /\ respBody = <<>>

C8_Witness == infraErr = "read" /\ respStatus = StatusInternalServerError

\* C9: if encoding the JSON response body fails, the response status is 500.
C9_EncodeFailureIs500 == encodeErr = "other" => respStatus = StatusInternalServerError

\* C10: a response that carries the JSON body was sent with the header
\* Content-Type: application/json.
C10_JSONContentType ==
    respBody # <<>> => <<ContentType, "application/json">> \in wireHeader

\* C11: a worker one of whose interceptors answered Continue = false invokes
\* no later interceptor of the chain, resolves no template, creates no
\* resource and does not report 201, whatever the status of the answer.
C11_NotContinueStopsWorker ==
    \A w \in Workers :
        w.stopped # 0 =>
            /\ w.calls = w.stopped
            /\ w.pc \in {"report", "done"}
            /\ w.created = 0
            /\ w.sent # StatusCreated

\* an interceptor of the worker rejected the event: it answered
\* Continue = false with a status that carries an error
Rejected(w) == w.stopped # 0 /\ w.statusErr \notin {"none", "nil"}

\* C12: a worker reports 401 exactly when the error its pipeline returned is
\* classified as unauthorized, 403 exactly when it is classified as
\* forbidden, 201 exactly when no step returned an error, and 202 for every
\* other error, the rejection by an interceptor included.
C12_CodeOfEachError ==
    \A w \in Workers :
        w.sends > 0 =>
            /\ (w.sent = StatusUnauthorized) <=> IsUnauthorized(w.err)
            /\ (w.sent = StatusForbidden) <=> IsForbidden(w.err)
            /\ (w.sent = StatusCreated) <=> (w.err = "nil")
            /\ (w.sent = StatusAccepted) <=>
                  (w.err # "nil" /\ ~IsUnauthorized(w.err) /\ ~IsForbidden(w.err))
            /\ Rejected(w) => (w.err = w.statusErr /\ w.sent = StatusAccepted)

C12_Witness ==
    \E v, w \in Workers :
        /\ Rejected(v) /\ v.sent = StatusAccepted
        /\ IsForbidden(w.err) /\ w.sent = StatusForbidden

\* the step of this transition is the step of one goroutine, from w to w2
StepOf(w, w2) ==
    /\ w # w2
    /\ workers' = (workers (-) SetToBag({w})) (+) SetToBag({w2})

\* the positions of processTrigger that can follow position p
Successors(p) ==
    CASE p = "start" -> {"interceptor", "resolveTrigger", "report"}
      [] p = "interceptor" -> {"interceptor", "resolveTrigger", "report"}
      [] p = "resolveTrigger" -> {"resolveParams", "report"}
      [] p = "resolveParams" -> {"auth", "create", "report"}
      [] p = "auth" -> {"create", "report"}
      [] p = "create" -> {"create", "report"}
      [] p = "report" -> {"done"}
      [] OTHER -> {}

\* C13: within one worker the steps run in the order trigger-ref resolution,
\* interceptor chain, template resolution, parameter resolution, resource
\* creation, report: every step of a worker leads to a later position, a
\* create call is issued only from a position after the chain returned
\* without error and the parameters resolved, and a step that returns an
\* error leads to the report with nothing invoked or created in between.
C13_StepsInOrder ==
    [][\A w \in Workers : \A w2 \in BagToSet(workers') :
          StepOf(w, w2) =>
              /\ w2.pc \in Successors(w.pc)
              /\ (w.pc = "interceptor" /\ w2.pc = "interceptor") => w2.k = w.k + 1
              /\ w2.created > w.created =>
                    /\ w.pc = "create"
                    /\ w.err = "none"
                    /\ w.statusErr \in {"none", "nil"}
                    /\ w.stopped # 0 \/ w.calls = Len(w.t.interceptors)
              /\ w2.err \notin {"none", "nil"} => w2.pc \in {"report", "done"}
              /\ w.pc = "report" =>
                    /\ w2.err = w.err
                    /\ w2.calls = w.calls
                    /\ w2.created = w.created]_vars

C13_Witness ==
    \E w \in Workers :
        /\ w.t = ChainTrigger
        /\ w.calls = 2
        /\ w.created = 2
        /\ w.pc = "done"
        /\ w.sent = StatusCreated

\* C14: a worker reports 201 only if every document of its rendered
\* templates was created; the documents are created in list order, the
\* first create that fails ends the loop with its error, the documents
\* after it stay uncreated and the documents before it stay created.
C14_CreatedAllOr201Withheld ==
    /\ [](\A w \in Workers :
            /\ w.sent = StatusCreated => w.created = w.t.docs
            /\ w.pc = "create" => (w.created = w.k - 1 /\ w.k <= w.t.docs)
            /\ (w.pc \in {"report", "done"} /\ w.err # "nil" /\ w.created > 0) =>
                  (w.created = w.k - 1 /\ w.created < w.t.docs)
            /\ (w.pc \in {"report", "done"} /\ w.err = "nil") => w.created = w.t.docs)
    /\ [][\A w \in Workers : \A w2 \in BagToSet(workers') :
            StepOf(w, w2) =>
                /\ w2.created >= w.created
                /\ w.pc \in {"report", "done"} => w2.created = w.created]_vars

C14_Witness ==
    \E v, w \in Workers :
        /\ v.t.docs = 2 /\ v.created = 1 /\ v.sent = StatusAccepted
        /\ w.t.docs = 2 /\ w.created = 2 /\ w.sent = StatusCreated

\* the worker's trigger was given by reference and the lookup or the
\* conversion of the referenced Trigger failed
RefFailed(w) ==
    /\ ~w.t.hasTemplate
    /\ w.t.triggerRef # ""
    /\ w.pc \in {"report", "done"}

\* the response is the one the workers other than those of failed references
\* give by themselves
AsIfAbsent ==
    LET Others == {w \in Workers : ~RefFailed(w)} IN
    (Responded /\ Accepted) =>
        IF \E w \in Others : IsUnauthorized(w.err) \/ IsForbidden(w.err)
        THEN respStatus \in {StatusUnauthorized, StatusForbidden}
        ELSE IF \E w \in Others : w.err = "nil"
             THEN respStatus = StatusCreated
             ELSE respStatus = StatusAccepted

\* C15 as stated: a worker whose referenced Trigger cannot be looked up or
\* converted reports 202 without running an interceptor or creating a
\* resource, and the response is as if that trigger were absent.
C15_Original ==
    /\ \A w \in Workers :
          RefFailed(w) =>
              /\ w.calls = 0
              /\ w.created = 0
              /\ w.sends > 0 => w.sent = StatusAccepted
    /\ AsIfAbsent

\* C15, amended: such a worker runs no interceptor and creates no resource,
\* and reports the code of the error's class: 401 for an unauthorized
\* lookup, 403 for a forbidden one, 202 otherwise; when every failed
\* reference reports 202 the response is as if those triggers were absent.
C15_Amended ==
    /\ \A w \in Workers :
          RefFailed(w) =>
              /\ w.calls = 0
              /\ w.created = 0
              /\ w.err \in ErrClasses
              /\ w.sends > 0 =>
                    w.sent = (IF w.err = "unauthorized" THEN StatusUnauthorized
                              ELSE IF w.err = "forbidden" THEN StatusForbidden
                              ELSE StatusAccepted)
    /\ (\A w \in Workers : RefFailed(w) => w.err = "other") => AsIfAbsent

C15_Witness ==
    /\ respStatus = StatusCreated
    /\ \E v, w \in Workers :
          /\ RefFailed(v) /\ v.sent = StatusAccepted
          /\ w.sent = StatusCreated

\* interceptor k of the chain is invoked through Process
IsProc(k) == IsInterceptorInterface(InterceptorFor(chain[k]))

\* the keys an interceptor can emit
ExtensionKeys == UNION {DOMAIN Val(e) : e \in ExtensionsEmitted \ {Nil}}

\* the interceptors among the first n that answered with a value for key
Emitters(key, n) ==
    {k \in 1..n : /\ k <= Len(answers)
                  /\ IsProc(k)
                  /\ answers[k].Extensions # Nil
                  /\ key \in DOMAIN Val(answers[k].Extensions)}

Last(S) == CHOOSE x \in S : \A y \in S : y <= x

\* each key emitted by one of the first n interceptors, with the value of
\* the last of them that emitted it
LastWins(n) ==
    [key \in {x \in ExtensionKeys : Emitters(x, n) # {}} |->
        Val(answers[Last(Emitters(key, n))].Extensions)[key]]

\* the call returned without error after every interceptor of a non-empty
\* chain continued
ChainContinued ==
    /\ ret # Nil
    /\ Val(ret).err = "nil"
    /\ Len(chain) > 0
    /\ Len(answers) = Len(chain)
    /\ \A k \in 1..Len(chain) : IsProc(k) => answers[k].Continue

\* C16: for a chain in which every interceptor continues, the extensions
\* returned map each key to the value emitted by the last interceptor, in
\* declaration order, that emitted it, and the request given to interceptor
\* k carries the merged extensions of interceptors 1..k-1, none for the first.
C16_ExtensionsLastWins ==
    /\ ChainContinued => Val(ret).extensions = Some(LastWins(Len(chain)))
    /\ \A k \in 1..Len(seen) : IsProc(k) => seen[k].Extensions = LastWins(k - 1)

C16_Witness ==
    /\ ChainContinued
    /\ Len(chain) = 2
    /\ IsProc(1)
    /\ IsProc(2)
    /\ answers[1].Extensions = Some([key \in {"a"} |-> 1])
    /\ answers[2].Extensions = Some([key \in {"a", "b"} |-> 2])
    /\ Val(ret).extensions = Some([key \in {"a", "b"} |-> 2])
    /\ seen[2].Extensions = [key \in {"a"} |-> 1]

\* C17: for a trigger with no interceptors the call returns the event body
\* and the headers of the request unchanged, no extensions and no error,
\* and invokes no interceptor.
C17_NoInterceptorsIsIdentity ==
    (Len(chain) = 0 /\ ret # Nil) =>
        /\ Val(ret).body = Some(event)
        /\ Val(ret).header = Some(inHeader)
        /\ Val(ret).extensions = Nil
        /\ Val(ret).err = "nil"
        /\ seen = <<>>
        /\ answers = <<>>

C17_Witness == chain = <<>> /\ ret # Nil /\ Val(ret).body = Some("event")

\* webhook interceptor k was called and its response was read
Hooked(k) ==
    /\ k <= Len(answers)
    /\ ~IsProc(k)
    /\ answers[k].err = "nil"
    /\ answers[k].readErr = "nil"

\* the webhook interceptors among the first n that succeeded
Hooks(n) == {k \in 1..n : Hooked(k)}

\* C18: after a webhook interceptor of the chain succeeds, the later
\* interceptors (up to the next webhook that succeeds) and the template
\* resolver are given the body and the headers of the webhook's response,
\* the accumulated extensions are those of the Process answers alone, and a
\* webhook call or body read that fails makes the call return an error with
\* no later interceptor run.
C18_WebhookResponseReplaces ==
    /\ \A k \in 1..Len(seen) :
          Hooks(k - 1) # {} =>
              /\ seen[k].Body = answers[Last(Hooks(k - 1))].Body
              /\ seen[k].Header = answers[Last(Hooks(k - 1))].Header
    /\ (ix >= 1 /\ (ret = Nil \/ Val(ret).err = "nil")) =>
          request.Extensions = LastWins(Len(answers))
    /\ (ret # Nil /\ Val(ret).err = "nil" /\ Hooks(Len(answers)) # {}) =>
          /\ Val(ret).body = Some(answers[Last(Hooks(Len(answers)))].Body)
          /\ Val(ret).header = Some(answers[Last(Hooks(Len(answers)))].Header)
    /\ \A k \in 1..Len(answers) :
          (~IsProc(k) /\ ~Hooked(k)) =>
              /\ ret # Nil
              /\ Val(ret).err # "nil"
              /\ Len(seen) = k

\* C19: each interceptor invoked through Process is given as
\* InterceptorParams the parameters GetInterceptorParams derives from its
\* own spec, and nothing of the parameters of an earlier interceptor; the
\* request keeps no parameters between two interceptors.
C19_OwnParamsOnly ==
    /\ \A k \in 1..Len(seen) :
          IsProc(k) => seen[k].InterceptorParams = GetInterceptorParams(chain[k])
    /\ (ret = Nil /\ ix >= 1) => request.InterceptorParams = EmptyMap

C19_Witness ==
    /\ chain = <<OfGitHub, OfCEL>>
    /\ Len(seen) = 2
    /\ DOMAIN seen[1].InterceptorParams = {"eventTypes", "secretRef"}
    /\ DOMAIN seen[2].InterceptorParams = {"filter", "overlays"}

\* the call of the GitLab interceptor returned an acceptance
GitLabAccepted ==
    /\ glOut # Nil
    /\ IF glIn.entry = "Process" THEN Val(glOut).Continue ELSE Val(glOut).err = "nil"

\* the X-GitLab-Token header of the request is the value the secretRef
\* refers to
TokenMatches ==
    /\ glIn.store # Nil
    /\ "token" \in DOMAIN Val(glIn.store)
    /\ glIn.token = Val(glIn.store)["token"]

\* C20: a GitLab interceptor configured with a secretRef never accepts a
\* request whose X-GitLab-Token header is empty or differs from the value
\* of the referenced secret; an empty header is rejected before any secret
\* is fetched, by Process with InvalidArgument, and a failed fetch of the
\* secret is a rejection too.
C20_GitLabTokenRequired ==
    (glOut # Nil /\ glIn.SecretRef # Nil) =>
        /\ (glIn.token = NoBytes \/ ~TokenMatches) => ~GitLabAccepted
        /\ glIn.token = NoBytes =>
              /\ glFetches = 0
              /\ glIn.entry = "Process" => Val(glOut).code = "InvalidArgument"
        /\ (glIn.store = Nil /\ glFetches > 0) => ~GitLabAccepted

C20_Witness ==
    /\ glOut # Nil
    /\ glIn # Nil
    /\ glIn.entry = "ExecuteTrigger"
    /\ glIn.SecretRef # Nil
    /\ glIn.token = TokenPrefix
    /\ glIn.store = Some([key \in {"token"} |-> Token])
    /\ glFetches = 1
    /\ ~GitLabAccepted

\* the X-GitLab-Event header of the request is in the allow-list
EventAllowed ==
    \E n \in 1..Len(Val(glIn.EventTypes)) : Val(glIn.EventTypes)[n] = glIn.gitLabEvent

\* the request passes the checks the interceptor is configured with
PassesGitLabChecks ==
    /\ glIn.SecretRef = Nil \/ (glIn.token # NoBytes /\ TokenMatches)
    /\ glIn.EventTypes = Nil \/ EventAllowed

\* C21: Process of the GitLab interceptor answers Continue = true, with no
\* extensions, for every request that passes its configured checks: the
\* secretRef is unset or the token header equals the secret, and eventTypes
\* is unset or the event header is in the allow-list.
C21_ProcessAcceptsValid ==
    (glOut # Nil /\ glIn.entry = "Process" /\ PassesGitLabChecks) =>
        Val(glOut).Continue

\* C22: when eventTypes is set and the X-GitLab-Event header is not in the
\* allow-list, Process answers Continue = false with FailedPrecondition,
\* the secret check, when configured, having been passed before.
C22_ProcessRejectsEventType ==
    (/\ glOut # Nil
     /\ glIn.entry = "Process"
     /\ glIn.EventTypes # Nil
     /\ ~EventAllowed
     /\ glIn.SecretRef = Nil \/ (glIn.token # NoBytes /\ TokenMatches)) =>
        /\ ~Val(glOut).Continue
        /\ Val(glOut).code = "FailedPrecondition"

(***************************************************************************)
(* The CEL interceptor: Interceptor.Process of                             *)
(* pkg/interceptors/cel/cel.go on one request (SpecCEL).                    *)
(***************************************************************************)
\* most overlays of the params of a request of SpecCEL
MaxOverlays == 2

\* a value of a CEL expression or of a decoded JSON document, by its type;
\* v is the value in its JSON spelling
CelValue(type, v) == [t |-> type, v |-> v]

\* types.True
True == CelValue("bool", "true")

\* a JSON string literal
Quote(s) == "\"" \o s \o "\""

\* the strings the expressions and the headers can yield
CelStrings == {"x", "push"}

\* r.Body: nil, or the bytes of the event body
CELBodies ==
    {Nil, Some("{}"), Some("{\"ok\":true}"), Some("{\"ok\":false}"),
     Some("null"), Some("{]")}

\* r.Header
CELHeaders == {EmptyMap, [key \in {"X-Kind"} |-> <<"push">>]}

\* p.Filter ("" when no filter is set)
CELFilters == {"", "true", "false", "body.ok", "'x'", "1 +"}

\* the expressions of the overlays
CELExpressions == {"body.ok", "'x'", "header['X-Kind'][0]", "b'1'", "b'x'"}

\* triggersv1.CELOverlay
CELOverlay(key, expression) == [Key |-> key, Expression |-> expression]

CELOverlays == {CELOverlay(key, e) : key \in {"a", "ok"}, e \in CELExpressions}

\* the requests Process is called with
CELInputs ==
    [Body : CELBodies,
     Header : CELHeaders,
     InterceptorParams : [filter : CELFilters,
                          overlays : SeqsUpTo(CELOverlays, MaxOverlays)]]

\* json.Unmarshal(body, &jsonMap) into a map[string]interface{}: the error
\* and the map, which JSON null leaves nil without an error
UnmarshalMap(text) ==
    CASE text = "{}" -> [err |-> "nil", m |-> Some(EmptyMap)]
      [] text = "{\"ok\":true}" ->
            [err |-> "nil", m |-> Some([key \in {"ok"} |-> CelValue("bool", "true")])]
      [] text = "{\"ok\":false}" ->
            [err |-> "nil", m |-> Some([key \in {"ok"} |-> CelValue("bool", "false")])]
      [] text = "null" -> [err |-> "nil", m |-> Nil]
      [] OTHER -> [err |-> "SyntaxError", m |-> Nil]

\* makeEvalContext(body, h, url)
makeEvalContext(body, h, url) ==
    LET parsed == UnmarshalMap(body)
    IN  IF parsed.err # "nil"
        THEN [err |-> "failed to parse the body as JSON", data |-> Nil]
        ELSE [err |-> "nil",
              data |-> Some([body |-> parsed.m, header |-> h, requestURL |-> url])]

\* the keys of a map[string]interface{} that may be nil
KeysOf(m) == IF m = Nil THEN {} ELSE DOMAIN Val(m)

\* evaluate(expr, env, data): env.Parse, env.Check against the declarations
\* body, header and requestURL of makeCelEnv, env.Program and prg.Eval
evaluate(expr, data) ==
    CASE expr = "1 +" -> [err |-> "failed to parse expression", out |-> Nil]
      [] expr = "true" -> [err |-> "nil", out |-> Some(True)]
      [] expr = "false" -> [err |-> "nil", out |-> Some(CelValue("bool", "false"))]
      [] expr = "'x'" -> [err |-> "nil", out |-> Some(CelValue("string", "x"))]
      [] expr = "b'1'" -> [err |-> "nil", out |-> Some(CelValue("bytes", "1"))]
      [] expr = "b'x'" -> [err |-> "nil", out |-> Some(CelValue("bytes", "x"))]
      [] expr = "body.ok" ->
            IF "ok" \in KeysOf(data.body)
            THEN [err |-> "nil", out |-> Some(Val(data.body)["ok"])]
            ELSE [err |-> "failed to evaluate", out |-> Nil]
      [] expr = "header['X-Kind'][0]" ->
            IF "X-Kind" \in DOMAIN data.header
            THEN [err |-> "nil",
                  out |-> Some(CelValue("string", data.header["X-Kind"][1]))]
            ELSE [err |-> "failed to evaluate", out |-> Nil]

\* the switch on val.(type) of the overlay loop: the JSON bytes b of a value
ToJSONBytes(val) ==
    CASE val.t = "string" -> Quote(val.v)
      [] val.t \in {"double", "int", "bool"} -> val.v
      [] OTHER -> val.v

\* sjson.SetRawBytes(extensions, key, b), which keeps the first value of a key
SetRawBytesKeepsFirst(extensions, key, b) ==
    IF key \in DOMAIN extensions THEN extensions ELSE MapSet(extensions, key, b)

\* sjson.SetRawBytes(extensions, key, b) on the JSON object extensions
SetRawBytes(extensions, key, b) == MapSet(extensions, key, b)

\* json.Unmarshal of one member of extensions into an interface{}
UnmarshalValue(raw) ==
    CASE raw \in {"true", "false"} -> [err |-> "nil", v |-> CelValue("bool", raw)]
      [] raw = "1" -> [err |-> "nil", v |-> CelValue("double", raw)]
      [] raw \in {Quote(s) : s \in CelStrings} ->
            [err |-> "nil",
             v |-> CelValue("string", CHOOSE s \in CelStrings : Quote(s) = raw)]
      [] OTHER -> [err |-> "SyntaxError", v |-> CelValue("invalid", raw)]

\* json.Unmarshal(extensions, &extensionsMap)
UnmarshalExtensions(extensions) ==
    IF \E key \in DOMAIN extensions : UnmarshalValue(extensions[key]).err # "nil"
    THEN [err |-> "SyntaxError", m |-> EmptyMap]
    ELSE [err |-> "nil",
          m |-> [key \in DOMAIN extensions |-> UnmarshalValue(extensions[key]).v]]

InitCEL ==
    /\ InitWith({<<>>})
    /\ NoChainCall
    /\ NoGitLabCall
    /\ NoMoreCallsBut("cel")
    /\ celIn \in CELInputs
    /\ celPc = "start"
    /\ celCtx = Nil
    /\ celK = 0
    /\ celExt = Nil
    /\ celEvals = <<>>
    /\ celOut = Nil

\* return &InterceptorResponse{Continue: false, Status: status.New(code, msg)};
\* names is the expression the message quotes ("" when it quotes none)
CELReject(grpcCode, names) ==
    /\ celOut' = Some([Continue |-> FALSE, code |-> grpcCode, names |-> names,
                       Extensions |-> Nil])
    /\ celPc' = "done"

\* return &InterceptorResponse{Continue: true, Extensions: extensions}
CELContinue(extensions) ==
    /\ celOut' = Some([Continue |-> TRUE, code |-> "OK", names |-> "",
                       Extensions |-> extensions])
    /\ celPc' = "done"

\* the entry of Process up to makeEvalContext: the params are decoded, the
\* environment is made and a nil body is read as {}
MakeContext ==
    /\ celPc = "start"
    /\ LET payload == IF celIn.Body # Nil THEN Val(celIn.Body) ELSE "{}"
           made == makeEvalContext(payload, celIn.Header, "url")
       IN  IF made.err # "nil"
           THEN CELReject("InvalidArgument", "") /\ UNCHANGED celCtx
           ELSE celCtx' = made.data /\ celPc' = "filter" /\ UNCHANGED celOut
    /\ UNCHANGED <<celIn, celK, celExt, celEvals, notCEL>>

\* if p.Filter != "" { ... }
Filter ==
    /\ celPc = "filter"
    /\ LET expr == celIn.InterceptorParams.filter
           r == evaluate(expr, Val(celCtx))
       IN  IF expr = ""
           THEN celPc' = "overlays" /\ celK' = 1 /\ UNCHANGED <<celEvals, celOut>>
           ELSE /\ celEvals' = Append(celEvals, [expr |-> expr, data |-> Val(celCtx)])
                /\ IF r.err # "nil"
                   THEN CELReject("InvalidArgument", expr) /\ UNCHANGED celK
                   ELSE IF Val(r.out) # True
                   THEN CELReject("FailedPrecondition", expr) /\ UNCHANGED celK
                   ELSE celPc' = "overlays" /\ celK' = 1 /\ UNCHANGED celOut
    /\ UNCHANGED <<celIn, celCtx, celExt, notCEL>>

\* one iteration of for _, u := range p.Overlays
Overlay ==
    /\ celPc = "overlays"
    /\ celK <= Len(celIn.InterceptorParams.overlays)
    /\ LET u == celIn.InterceptorParams.overlays[celK]
           r == evaluate(u.Expression, Val(celCtx))
           extensions == IF celExt = Nil THEN EmptyMap ELSE Val(celExt)
       IN  /\ celEvals' = Append(celEvals, [expr |-> u.Expression, data |-> Val(celCtx)])
           /\ IF r.err # "nil"
              THEN CELReject("InvalidArgument", u.Expression) /\ UNCHANGED <<celK, celExt>>
              ELSE /\ celExt' = Some(SetRawBytes(extensions, u.Key, ToJSONBytes(Val(r.out))))
                   /\ celK' = celK + 1
                   /\ UNCHANGED <<celPc, celOut>>
    /\ UNCHANGED <<celIn, celCtx, notCEL>>

\* after the loop: no extensions when no overlay ran, else the decoded object
ReturnExtensions ==
    /\ celPc = "overlays"
    /\ celK > Len(celIn.InterceptorParams.overlays)
    /\ IF celExt = Nil
       THEN CELContinue(Nil)
       ELSE LET decoded == UnmarshalExtensions(Val(celExt))
            IN  IF decoded.err # "nil"
                THEN CELReject("Internal", "")
                ELSE CELContinue(Some(decoded.m))
    /\ UNCHANGED <<celIn, celCtx, celK, celExt, celEvals, notCEL>>

NextCEL ==
    \/ MakeContext
    \/ Filter
    \/ Overlay
    \/ ReturnExtensions

SpecCEL == InitCEL /\ [][NextCEL]_vars

(***************************************************************************)
(* Properties of the CEL interceptor.                                      *)
(***************************************************************************)
\* the body of the request is a JSON object (a request without a body is
\* read as the empty object)
BodyIsJSONObject ==
    celIn.Body \in {Nil, Some("{}"), Some("{\"ok\":true}"), Some("{\"ok\":false}")}

\* the data the expressions of the request are to be evaluated on: the
\* members of the body and the headers as the request brought them
OriginalData ==
    [body |-> CASE celIn.Body = Some("{\"ok\":true}") ->
                       Some([key \in {"ok"} |-> CelValue("bool", "true")])
                [] celIn.Body = Some("{\"ok\":false}") ->
                       Some([key \in {"ok"} |-> CelValue("bool", "false")])
                [] celIn.Body = Some("null") -> Nil
                [] OTHER -> Some(EmptyMap),
     header |-> celIn.Header,
     requestURL |-> "url"]

\* Process has returned on a request whose params set a filter
FilterDecided == celOut # Nil /\ celIn.InterceptorParams.filter # ""

\* C23: when a filter is set, Process answers Continue = true only if the
\* filter evaluates to boolean true; a body that is not a JSON object, and a
\* filter that fails to parse or to evaluate, are answered Continue = false
\* with InvalidArgument, any other result of the filter is answered
\* Continue = false with FailedPrecondition naming the expression, and in
\* all these cases no overlay is evaluated.
C23_FilterGates ==
    FilterDecided =>
        LET filter == celIn.InterceptorParams.filter
            r == evaluate(filter, OriginalData)
            out == Val(celOut)
            refused(grpcCode) ==
                /\ ~out.Continue
                /\ out.code = grpcCode
                /\ \A n \in 1..Len(celEvals) : n = 1 /\ celEvals[n].expr = filter
        IN  /\ out.Continue => (r.err = "nil" /\ Val(r.out) = True)
            /\ ~BodyIsJSONObject => refused("InvalidArgument")
            /\ (BodyIsJSONObject /\ r.err # "nil") => refused("InvalidArgument")
            /\ (BodyIsJSONObject /\ r.err = "nil" /\ Val(r.out) # True) =>
                   refused("FailedPrecondition") /\ out.names = filter

\* the value the extensions are to hold for an overlay: the value of its
\* expression on the original data, as JSON decodes what the loop encoded
OverlayValue(u) ==
    UnmarshalValue(ToJSONBytes(Val(evaluate(u.Expression, OriginalData).out))).v

\* the index of the last overlay of the params that sets key
LastOverlayOf(key) ==
    LET ovs == celIn.InterceptorParams.overlays
    IN  CHOOSE n \in 1..Len(ovs) :
            /\ ovs[n].Key = key
            /\ \A m \in (n + 1)..Len(ovs) : ovs[m].Key # key

\* Process has answered Continue = true
CELContinued == celOut # Nil /\ Val(celOut).Continue

\* C24: Process applies the overlays in declaration order to an extensions
\* object only: every overlay expression is evaluated on the original body
\* and headers, the extensions hold for each key the value of the last
\* overlay with that key, without overlays the answer is Continue = true
\* with no extensions, and the body and headers of the request are never
\* changed.
C24_OverlaysOnExtensionsOnly ==
    /\ [](LET ovs == celIn.InterceptorParams.overlays
              first == IF celIn.InterceptorParams.filter = "" THEN 0 ELSE 1
          IN  /\ celIn # Nil =>
                     \A n \in 1..Len(celEvals) :
                         /\ celEvals[n].data = OriginalData
                         /\ n > first => celEvals[n].expr = ovs[n - first].Expression
              /\ CELContinued =>
                     /\ Len(celEvals) = first + Len(ovs)
                     /\ ovs = <<>> => Val(celOut).Extensions = Nil
                     /\ ovs # <<>> =>
                            /\ Val(celOut).Extensions # Nil
                            /\ DOMAIN Val(Val(celOut).Extensions) =
                                   {ovs[n].Key : n \in 1..Len(ovs)}
                            /\ \A key \in DOMAIN Val(Val(celOut).Extensions) :
                                   Val(Val(celOut).Extensions)[key] =
                                       OverlayValue(ovs[LastOverlayOf(key)]))
    /\ [][celIn' = celIn]_vars

\* Process continued on two overlays of one key whose values differ, the
\* second of them read from the body, and the extensions hold the second
C24_Witness ==
    /\ CELContinued
    /\ Len(celIn.InterceptorParams.overlays) = 2
    /\ celIn.InterceptorParams.overlays[1] = CELOverlay("ok", "'x'")
    /\ celIn.InterceptorParams.overlays[2] = CELOverlay("ok", "body.ok")
    /\ celIn.Body = Some("{\"ok\":true}")
    /\ Val(Val(celOut).Extensions) = [key \in {"ok"} |-> CelValue("bool", "true")]

(***************************************************************************)
(* The requests of one sink: the server runs HandleEvent once for every   *)
(* request, concurrently with the calls for the other requests            *)
(* (SpecRequests).                                                         *)
(***************************************************************************)
\* most requests the sink of SpecRequests is sent
MaxRequests == 3

\* the call of HandleEvent for a request that has arrived
NewRequest == [pc |-> "lookup", eventID |-> ""]

InitRequests ==
    /\ InitWith({<<>>})
    /\ NoChainCall
    /\ NoGitLabCall
    /\ NoMoreCallsBut("reqs")
    /\ reqs = <<>>

\* reqs with the call for request r at position to
Moved(r, to) == [reqs EXCEPT ![r].pc = to]

\* a request arrives and the server calls HandleEvent for it
Arrive ==
    /\ Len(reqs) < MaxRequests
    /\ reqs' = Append(reqs, NewRequest)
    /\ UNCHANGED notReqs

\* el, err := ...EventListeners(ns).Get(...); on error: 500 and return
LookupFor(r) ==
    /\ reqs[r].pc = "lookup"
    /\ \E err \in {"nil", "other"} :
           reqs' = Moved(r, IF err # "nil" THEN "failed" ELSE "read")
    /\ UNCHANGED notReqs

\* event, err := ioutil.ReadAll(request.Body); on error: 500 and return
ReadFor(r) ==
    /\ reqs[r].pc = "read"
    /\ \E err \in {"nil", "other"} :
           reqs' = Moved(r, IF err # "nil" THEN "failed" ELSE "mint")
    /\ UNCHANGED notReqs

\* eventID := template.UID()
MintFor(r) ==
    /\ reqs[r].pc = "mint"
    /\ \E id \in UIDs : reqs' = [reqs EXCEPT ![r] = [pc |-> "serve", eventID |-> id]]
    /\ UNCHANGED notReqs

\* the triggers are processed and the response with the eventID is written
ServeFor(r) ==
    /\ reqs[r].pc = "serve"
    /\ reqs' = Moved(r, "done")
    /\ UNCHANGED notReqs

NextRequests ==
    \/ Arrive
    \/ \E r \in 1..Len(reqs) : LookupFor(r)
    \/ \E r \in 1..Len(reqs) : ReadFor(r)
    \/ \E r \in 1..Len(reqs) : MintFor(r)
    \/ \E r \in 1..Len(reqs) : ServeFor(r)

SpecRequests == InitRequests /\ [][NextRequests]_vars

\* the requests that were accepted and given an event ID
Minted == {r \in 1..Len(reqs) : reqs[r].eventID # ""}

\* C25: no two accepted requests, handled one after the other or
\* concurrently, are assigned the same event ID.
C25_EventIDsUnique ==
    \A r1, r2 \in Minted : r1 # r2 => reqs[r1].eventID # reqs[r2].eventID

\* C26: the event ID of an event is minted once and every worker is given
\* that value: it is the EventID of the Context of every interceptor request,
\* the event ID every resource created is labelled with, and the eventID
\* of the response body.
C26_OneEventIDPerEvent ==
    /\ [](/\ \A w \in Workers :
                /\ w.eventID = eventID
                /\ w.ctxIDs \subseteq {eventID}
                /\ w.labelIDs \subseteq {eventID}
                /\ w.calls > 0 /\ w.t.interceptors[1] \notin {"none", "webhook"} =>
                       w.ctxIDs = {eventID}
                /\ w.created > 0 => w.labelIDs = {eventID}
          /\ Workers # {} => eventID \in UIDs
          /\ respBody # <<>> => respBody[1].eventID = eventID)
    /\ [][eventID # "" => eventID' = eventID]_vars

\* two workers of one event, one that sent the event ID to an interceptor
\* and one that labelled a resource with it, and the response carries it
C26_Witness ==
    /\ respBody # <<>>
    /\ respBody[1].eventID = "uid-b"
    /\ \E v, w \in Workers :
           /\ v.ctxIDs = {"uid-b"} /\ v.labelIDs = {}
           /\ w.labelIDs = {"uid-b"}

(***************************************************************************)
(* The objects the goroutines of one event hold references to: the        *)
(* headers of the request, the bytes of the event body and what each       *)
(* goroutine allocates on its way through ExecuteInterceptors (SpecHeap).  *)
(***************************************************************************)
\* the goroutines of the event of SpecHeap
HeapWorkers == 2

\* longest interceptor chain of a trigger of SpecHeap
MaxHeapChain == 1

\* an object: what allocated it, for which goroutine, at which interceptor
Object(kind, w, k) == <<kind, w, k>>

\* req.Header of the incoming request and the bytes of event
RequestHeader == Object("request.Header", 0, 0)
EventBytes == Object("event", 0, 0)

\* the content of the headers of the incoming request, of the event body,
\* and of the headers and the body a webhook interceptor answers with
IncomingHeader == [key \in {"X-Kind"} |-> "push"]
EventContent == [key \in {"bytes"} |-> "event"]
HookHeader == [key \in {"X-Kind"} |-> "hooked"]
HookPayload == [key \in {"bytes"} |-> "payload"]

\* the value an interceptor of goroutine w puts in its extensions
ExtensionOf(w) == <<"w1", "w2", "w3", "w4">>[w]

\* iresp.Extensions of a Process call of goroutine w
HeapExtensions(w) == {Nil, Some([key \in {"a"} |-> ExtensionOf(w)])}

\* a Clone of a header that returns the header itself
SharedHeader(header, fresh) == header

\* the object http.Header.Clone and http.Request.Clone return for a header:
\* a newly allocated map
ClonedHeader(header, fresh) == fresh

\* the heap after storing content in object
Store(h, object, content) ==
    [o \in DOMAIN h \cup {object} |-> IF o = object THEN content ELSE h[o]]

\* the goroutine go func(t) {...}(t) of trigger t as it starts
NewHeapWorker(interceptors) ==
    [chain |-> interceptors, pc |-> "start", k |-> 0, in |-> Nil, request |-> Nil,
     handed |-> <<>>, merged |-> <<>>, hooked |-> FALSE, ret |-> Nil]

InitHeap ==
    /\ InitWith({<<>>})
    /\ NoChainCall
    /\ NoGitLabCall
    /\ NoMoreCallsBut("heap")
    /\ heap = Store(Store(<<>>, RequestHeader, IncomingHeader), EventBytes, EventContent)
    /\ \E chains \in [1..HeapWorkers -> SeqsUpTo({"process", "webhook"}, MaxHeapChain)] :
           hw = [w \in 1..HeapWorkers |-> NewHeapWorker(chains[w])]

\* the references of an InterceptorRequest or of the values returned
Refs(body, header, extensions) ==
    [Body |-> body, Header |-> header, Extensions |-> extensions]

\* localRequest := request.Clone(request.Context())
HeapClone(w) ==
    /\ hw[w].pc = "start"
    /\ LET local == ClonedHeader(RequestHeader, Object("localRequest.Header", w, 0))
       IN  /\ heap' = Store(heap, local, heap[RequestHeader])
           /\ hw' = [hw EXCEPT ![w].in = local, ![w].pc = "enter"]
    /\ UNCHANGED notHeap

\* the entry of ExecuteInterceptors: the early return for no interceptors,
\* or the InterceptorRequest with event, in.Header.Clone() and a new map
HeapEnter(w) ==
    /\ hw[w].pc = "enter"
    /\ IF Len(hw[w].chain) = 0
       THEN /\ hw' = [hw EXCEPT ![w].ret = Some(Refs(EventBytes, hw[w].in, Nil)),
                                ![w].pc = "done"]
            /\ UNCHANGED heap
       ELSE LET header == ClonedHeader(hw[w].in, Object("request.Header", w, 0))
                extensions == Object("request.Extensions", w, 0)
            IN  /\ heap' = Store(Store(heap, header, heap[hw[w].in]), extensions, EmptyMap)
                /\ hw' = [hw EXCEPT ![w].request = Some(Refs(EventBytes, header, extensions)),
                                    ![w].k = 1,
                                    ![w].pc = "loop"]
    /\ UNCHANGED notHeap

\* a pass of the loop for an interceptor called through Process(ctx, &request)
HeapProcess(w) ==
    /\ hw[w].pc = "loop"
    /\ hw[w].k <= Len(hw[w].chain)
    /\ hw[w].chain[hw[w].k] = "process"
    /\ LET req == Val(hw[w].request)
           given == [hw EXCEPT ![w].handed = Append(hw[w].handed, req)]
       IN  \E continue \in BOOLEAN, ext \in HeapExtensions(w) :
               IF ~continue
               THEN /\ hw' = [given EXCEPT ![w].ret = Some(Refs(Nil, Nil, Nil)),
                                           ![w].request = Nil,
                                           ![w].pc = "done"]
                    /\ UNCHANGED heap
               ELSE /\ heap' = Store(heap, req.Extensions,
                                     Merge(heap[req.Extensions], ext))
                    /\ hw' = [given EXCEPT ![w].merged = Append(hw[w].merged, ext),
                                           ![w].k = hw[w].k + 1]
    /\ UNCHANGED notHeap

\* a pass of the loop for a webhook interceptor: it is sent request.Header
\* and a buffer on request.Body; its answer replaces both
HeapWebhook(w) ==
    /\ hw[w].pc = "loop"
    /\ hw[w].k <= Len(hw[w].chain)
    /\ hw[w].chain[hw[w].k] = "webhook"
    /\ LET req == Val(hw[w].request)
           given == [hw EXCEPT ![w].handed =
                        Append(hw[w].handed, Refs(req.Body, req.Header, Nil))]
           respHdr == Object("resp.Header", w, hw[w].k)
           payload == Object("payload", w, hw[w].k)
           header == ClonedHeader(respHdr, Object("request.Header", w, hw[w].k))
       IN  \E err \in {"nil", "other"} :
               IF err # "nil"
               THEN /\ hw' = [given EXCEPT ![w].ret = Some(Refs(Nil, Nil, Nil)),
                                           ![w].request = Nil,
                                           ![w].pc = "done"]
                    /\ UNCHANGED heap
               ELSE /\ heap' = Store(Store(Store(heap, respHdr, HookHeader),
                                           payload, HookPayload),
                                     header, HookHeader)
                    /\ hw' = [given EXCEPT
                                 ![w].request = Some(Refs(payload, header, req.Extensions)),
                                 ![w].hooked = TRUE,
                                 ![w].k = hw[w].k + 1]
    /\ UNCHANGED notHeap

\* return request.Body, request.Header, request.Extensions, nil
HeapReturn(w) ==
    /\ hw[w].pc = "loop"
    /\ hw[w].k > Len(hw[w].chain)
    /\ hw' = [hw EXCEPT ![w].ret = hw[w].request, ![w].pc = "done"]
    /\ UNCHANGED <<heap, notHeap>>

NextHeap ==
    \/ \E w \in 1..HeapWorkers : HeapClone(w)
    \/ \E w \in 1..HeapWorkers : HeapEnter(w)
    \/ \E w \in 1..HeapWorkers : HeapProcess(w)
    \/ \E w \in 1..HeapWorkers : HeapWebhook(w)
    \/ \E w \in 1..HeapWorkers : HeapReturn(w)

SpecHeap == InitHeap /\ [][NextHeap]_vars

RECURSIVE MergedAll(_)
\* the extensions after merging the answers exts in their order
MergedAll(exts) ==
    IF exts = <<>> THEN EmptyMap
    ELSE Merge(MergedAll(SubSeq(exts, 1, Len(exts) - 1)), exts[Len(exts)])

\* the header objects goroutine w has handed to its interceptors
HandedHeaders(w) == {hw[w].handed[n].Header : n \in 1..Len(hw[w].handed)}

\* C27: the workers of one event share no mutable state: the headers a
\* worker hands to its interceptors are a copy of its own, the bytes of the
\* event body (and the headers of the incoming request) are never written,
\* and the body, headers and extensions a worker sees are those its own
\* interceptors answered, whatever the other workers have done meanwhile.
C27_WorkersShareNothing ==
    heap # <<>> =>
        /\ heap[EventBytes] = EventContent
        /\ heap[RequestHeader] = IncomingHeader
        /\ \A w \in 1..HeapWorkers :
               /\ RequestHeader \notin HandedHeaders(w)
               /\ \A v \in 1..HeapWorkers :
                      v # w => HandedHeaders(v) \cap HandedHeaders(w) = {}
               /\ \A n \in 1..Len(hw[w].handed) :
                      hw[w].handed[n].Body \in {EventBytes} \cup
                          {Object("payload", w, k) : k \in 1..Len(hw[w].chain)}
               /\ hw[w].request # Nil =>
                      LET req == Val(hw[w].request)
                      IN  /\ heap[req.Extensions] = MergedAll(hw[w].merged)
                          /\ heap[req.Header] =
                                 IF hw[w].hooked THEN HookHeader ELSE IncomingHeader
                          /\ heap[req.Body] =
                                 IF hw[w].hooked THEN HookPayload ELSE EventContent

\* two workers have each handed headers to an interceptor and merged the
\* extensions of its answer while the other was in its loop
C27_Witness ==
    /\ heap # <<>>
    /\ \A w \in 1..2 :
           /\ hw[w].pc = "loop"
           /\ Len(hw[w].handed) = 1
           /\ hw[w].merged = <<Some([key \in {"a"} |-> ExtensionOf(w)])>>
           /\ heap[Val(hw[w].request).Extensions]["a"] = ExtensionOf(w)

(***************************************************************************)
(* The feature flags of pkg/apis/triggers/config/feature_flags.go: one     *)
(* call of NewFeatureFlagsFromMap or of setEnabledAPIFields (SpecFlags).   *)
(* Strings are sequences of characters.                                    *)
(***************************************************************************)
\* StableAPIFields = "stable", AlphaAPIFields = "alpha"
StableAPIFields == <<"s", "t", "a", "b", "l", "e">>
AlphaAPIFields == <<"a", "l", "p", "h", "a">>

\* enableAPIFields = "enable-api-fields"
enableAPIFields == "enable-api-fields"

\* DefaultEnableAPIFields = StableAPIFields
DefaultEnableAPIFields == StableAPIFields

\* the upper case letters of the values and their lower case
UpperCase == <<"A", "B", "E", "H", "L", "P", "S", "T">>
LowerCase == <<"a", "b", "e", "h", "l", "p", "s", "t">>

\* unicode.ToLower on a character
ToLowerChar(c) ==
    IF \E n \in 1..Len(UpperCase) : UpperCase[n] = c
    THEN LowerCase[CHOOSE n \in 1..Len(UpperCase) : UpperCase[n] = c]
    ELSE c

\* a ToLower that leaves its argument as it is
ToLowerKeepsCase(str) == str

\* strings.ToLower(str)
ToLower(str) == [n \in 1..Len(str) |-> ToLowerChar(str[n])]

\* the values the config map gives the flag
FlagValues ==
    {AlphaAPIFields, <<"A", "l", "p", "h", "a">>, <<"A", "L", "P", "H", "A">>,
     StableAPIFields, <<"S", "t", "a", "b", "l", "e">>, <<"S", "T", "A", "B", "L", "E">>,
     <<"b", "e", "t", "a">>, <<"B", "E", "T", "A">>,
     <<"a", "l", "p", "h", "a", " ">>, <<>>}

\* cfgMap: the nil map, or a map with or without the flag and another key
FlagMaps ==
    {Nil, Some(EmptyMap), Some([key \in {"other-flag"} |-> <<"a">>])}
        \cup {Some([key \in {enableAPIFields} |-> v]) : v \in FlagValues}
        \cup {Some([key \in {enableAPIFields, "other-flag"} |->
                       IF key = enableAPIFields THEN v ELSE <<"a">>]) : v \in FlagValues}

\* the calls: NewFeatureFlagsFromMap(cfgMap), or setEnabledAPIFields with a
\* default value of the caller's
FlagCalls ==
    [entry : {"NewFeatureFlagsFromMap"}, cfgMap : FlagMaps,
     defaultValue : {DefaultEnableAPIFields}]
        \cup [entry : {"setEnabledAPIFields"}, cfgMap : FlagMaps,
              defaultValue : {StableAPIFields, AlphaAPIFields, <<"b", "e", "t", "a">>}]

\* setEnabledAPIFields without the default: a missing flag is an error
setEnabledAPIFieldsNoDefault(cfgMap, defaultValue, feature) ==
    IF enableAPIFields \in KeysOf(cfgMap)
          /\ ToLower(Val(cfgMap)[enableAPIFields]) \in {AlphaAPIFields, StableAPIFields}
    THEN [err |-> "nil", feature |-> ToLower(Val(cfgMap)[enableAPIFields])]
    ELSE [err |-> "invalid value for feature flag", feature |-> feature]

\* setEnabledAPIFields(cfgMap, defaultValue, feature): the error returned
\* and the string at feature after the call
setEnabledAPIFields(cfgMap, defaultValue, feature) ==
    LET value == IF enableAPIFields \in KeysOf(cfgMap)
                 THEN ToLower(Val(cfgMap)[enableAPIFields])
                 ELSE defaultValue
    IN  IF value \in {AlphaAPIFields, StableAPIFields}
        THEN [err |-> "nil", feature |-> value]
        ELSE [err |-> "invalid value for feature flag", feature |-> feature]

\* NewFeatureFlagsFromMap(cfgMap): the flags (Nil: nil) and the error
NewFeatureFlagsFromMap(cfgMap) ==
    LET set == setEnabledAPIFields(cfgMap, DefaultEnableAPIFields, <<>>)
    IN  IF set.err # "nil"
        THEN [flags |-> Nil, err |-> set.err]
        ELSE [flags |-> Some([EnableAPIFields |-> set.feature]), err |-> "nil"]

InitFlags ==
    /\ InitWith({<<>>})
    /\ NoChainCall
    /\ NoGitLabCall
    /\ NoMoreCallsBut("flags")
    /\ ffIn \in FlagCalls
    /\ ffFeature = <<>>
    /\ ffOut = Nil

CallNewFeatureFlagsFromMap ==
    /\ ffOut = Nil
    /\ ffIn.entry = "NewFeatureFlagsFromMap"
    /\ ffOut' = Some(NewFeatureFlagsFromMap(ffIn.cfgMap))
    /\ UNCHANGED <<ffIn, ffFeature, notFlags>>

CallSetEnabledAPIFields ==
    /\ ffOut = Nil
    /\ ffIn.entry = "setEnabledAPIFields"
    /\ LET set == setEnabledAPIFields(ffIn.cfgMap, ffIn.defaultValue, ffFeature)
       IN  /\ ffOut' = Some([flags |-> Nil, err |-> set.err])
           /\ ffFeature' = set.feature
    /\ UNCHANGED <<ffIn, notFlags>>

NextFlags ==
    \/ CallNewFeatureFlagsFromMap
    \/ CallSetEnabledAPIFields

SpecFlags == InitFlags /\ [][NextFlags]_vars

\* two strings are equal up to the case of their letters
SameIgnoringCase(a, b) ==
    /\ Len(a) = Len(b)
    /\ \A n \in 1..Len(a) : ToLowerChar(a[n]) = ToLowerChar(b[n])

\* the map of the call has the flag
HasFlag == enableAPIFields \in KeysOf(ffIn.cfgMap)

\* the value the map gives the flag
FlagValue == Val(ffIn.cfgMap)[enableAPIFields]

\* NewFeatureFlagsFromMap has returned
FlagsReturned == ffOut # Nil /\ ffIn.entry = "NewFeatureFlagsFromMap"

SetReturned == ffOut # Nil /\ ffIn.entry = "setEnabledAPIFields"

\* the value of the flag is neither alpha nor stable in any case
FlagInvalid ==
    /\ HasFlag
    /\ ~SameIgnoringCase(FlagValue, StableAPIFields)
    /\ ~SameIgnoringCase(FlagValue, AlphaAPIFields)

MaxApplications == 2

\* the port SetDefaults gives a service reference without one
DefaultPort == 80

\* ServiceReference
ServiceReferences ==
    [Namespace : {"default", "tekton"},
     Name : {"github-svc", "cel-svc"},
     Path : {Nil, Some("/hook")},
     Port : {Nil, Some(DefaultPort), Some(443), Some(8080)}]

\* ClusterInterceptor: its name and the client config of its spec
ClusterInterceptors ==
    [Name : {"github", "cel"},
     ClientConfig : [URL : {Nil, Some("https://interceptor")},
                     Service : {Nil} \cup {Some(s) : s \in ServiceReferences},
                     CABundle : {Nil, Some("pem")}]]

\* a SetDefaults that sets the port whether or not the object has one
SetDefaultsOverwrites(ci) ==
    IF ci.ClientConfig.Service # Nil
    THEN [ci EXCEPT !.ClientConfig.Service =
             Some([Val(ci.ClientConfig.Service) EXCEPT !.Port = Some(DefaultPort)])]
    ELSE ci

\* (*ClusterInterceptor).SetDefaults(ctx): the object after the call
SetDefaults(ci) ==
    IF ci.ClientConfig.Service # Nil /\ Val(ci.ClientConfig.Service).Port = Nil
    THEN [ci EXCEPT !.ClientConfig.Service =
             Some([Val(ci.ClientConfig.Service) EXCEPT !.Port = Some(DefaultPort)])]
    ELSE ci

InitDefaults ==
    /\ InitWith({<<>>})
    /\ NoChainCall
    /\ NoGitLabCall
    /\ NoMoreCallsBut("defaults")
    /\ ciIn \in {Some(ci) : ci \in ClusterInterceptors}
    /\ ciRuns = <<>>

\* the object as the calls so far have left it
CurrentInterceptor == IF ciRuns = <<>> THEN Val(ciIn) ELSE ciRuns[Len(ciRuns)]

\* got.SetDefaults(ctx)
ApplySetDefaults ==
    /\ ciIn # Nil
    /\ Len(ciRuns) < MaxApplications
    /\ ciRuns' = Append(ciRuns, SetDefaults(CurrentInterceptor))
    /\ UNCHANGED <<ciIn, notDefaults>>

NextDefaults == ApplySetDefaults

SpecDefaults == InitDefaults /\ [][NextDefaults]_vars

\* two service references agree on all but their port
SameButPort(s, t) ==
    /\ s.Namespace = t.Namespace
    /\ s.Name = t.Name
    /\ s.Path = t.Path

MaxBindings == 2

\* how many outputs of the random generator one rendering has before it
MaxUidStream == 3

Lit(text) == <<"lit", text>>

BodyVar(path) == <<"body", path>>

HeaderVar(name) == <<"header", name>>

ParamVar(name) == <<"params", name>>

UidVar == <<"uid", "">>

TemplateBodies == {[path \in {"foo"} |-> "bar"], [path \in {} |-> ""]}

TemplateHeaders == {[name \in {"one"} |-> <<"1", "2">>], [name \in {} |-> <<>>]}

Binding(name, value) == <<[name |-> name, value |-> value]>>

TriggerBindings ==
    { Binding("param1", <<BodyVar("foo")>>),
      Binding("param1", <<Lit("bar")>>),
      Binding("param1", <<Lit("foo")>>),
      Binding("param2", <<HeaderVar("one")>>),
      Binding("param3", <<HeaderVar("one"), Lit("-"), HeaderVar("bogus")>>),
      Binding("param3", <<BodyVar("foo"), Lit("-"), BodyVar("bogusvalue")>>) }

\* a declared param: its name and its default, if it has one
ParamSpec(name, default) == [name |-> name, default |-> default]

\* {"rt1": "$(params.param1)-$(uid)-$(uid)", "rt2": "$(uid)"}
ThreeUidTemplate ==
    [params |-> <<ParamSpec("param1", Nil)>>,
     resourcetemplates |->
        << << <<Lit("rt1")>>, <<ParamVar("param1"), Lit("-"), UidVar, Lit("-"), UidVar>>,
              <<Lit("rt2")>>, <<UidVar>> >> >>]

\* {"rt1": "$(params.param1)-$(uid)", "$(uid)": "$(uid)"},
\* {"rt2": "$(params.param2)-$(uid)"}, {"rt3": "rt3"}
MultipleUidTemplate ==
    [params |-> <<ParamSpec("param1", Nil), ParamSpec("param2", Some("default2"))>>,
     resourcetemplates |->
        << << <<Lit("rt1")>>, <<ParamVar("param1"), Lit("-"), UidVar>>,
              <<UidVar>>, <<UidVar>> >>,
           << <<Lit("rt2")>>, <<ParamVar("param2"), Lit("-"), UidVar>> >>,
           << <<Lit("rt3")>>, <<Lit("rt3")>> >> >>]

\* two params with a default each, {"rt1": "$(params.param1)-$(params.param2)"}
DefaultsTemplate ==
    [params |-> <<ParamSpec("param1", Some("default1")),
                  ParamSpec("param2", Some("default2"))>>,
     resourcetemplates |->
        << << <<Lit("rt1")>>, <<ParamVar("param1"), Lit("-"), ParamVar("param2")>> >> >>]

EmptyTemplate == [params |-> <<>>, resourcetemplates |-> <<>>]

TriggerTemplates == {ThreeUidTemplate, MultipleUidTemplate, DefaultsTemplate, EmptyTemplate}

TemplateInputs ==
    [bindings : SeqsUpTo(TriggerBindings, MaxBindings), body : TemplateBodies,
     header : TemplateHeaders, template : TriggerTemplates]

RECURSIVE JoinValues(_)
\* strings.Join(values, " ")
JoinValues(values) ==
    IF Len(values) = 0 THEN ""
    ELSE IF Len(values) = 1 THEN values[1]
    ELSE values[1] \o " " \o JoinValues(Tail(values))

\* mutant of getEventValue: a variable the event has no value for is the empty text
getEventValueAbsentIsEmpty(piece, body, header) ==
    IF piece[1] = "body"
    THEN IF piece[2] \in DOMAIN body THEN Some(body[piece[2]]) ELSE Some("")
    ELSE IF piece[1] = "header"
         THEN IF piece[2] \in DOMAIN header THEN Some(JoinValues(header[piece[2]]))
              ELSE Some("")
         ELSE Some(piece[2])

\* getBodyPathValue, getHeaderValue: the text of one piece of a param value,
\* Nil for the error of a path the body or a name the headers do not have
getEventValue(piece, body, header) ==
    IF piece[1] = "body"
    THEN IF piece[2] \in DOMAIN body THEN Some(body[piece[2]]) ELSE Nil
    ELSE IF piece[1] = "header"
         THEN IF piece[2] \in DOMAIN header THEN Some(JoinValues(header[piece[2]]))
              ELSE Nil
         ELSE Some(piece[2])

RECURSIVE applyEventToParam(_, _, _)
\* applyBodyToParam, applyHeaderToParam: the value with every variable
\* replaced, Nil for an error
applyEventToParam(value, body, header) ==
    IF Len(value) = 0 THEN Some("")
    ELSE LET first == getEventValue(value[1], body, header)
             rest == applyEventToParam(Tail(value), body, header)
         IN  IF first = Nil \/ rest = Nil THEN Nil
             ELSE Some(Val(first) \o Val(rest))

RECURSIVE MergeBindingParams(_)
\* the params of the bindings, in order; each with the index of its binding
MergeBindingParams(bindings) ==
    IF Len(bindings) = 0 THEN <<>>
    ELSE MergeBindingParams(SubSeq(bindings, 1, Len(bindings) - 1))
         \o [k \in 1..Len(bindings[Len(bindings)]) |->
                [name |-> bindings[Len(bindings)][k].name,
                 value |-> bindings[Len(bindings)][k].value,
                 binding |-> Len(bindings)]]

\* mutant of Conflicts: no two bindings conflict
ConflictsNever(resolved) == FALSE

\* params of two bindings with the same name and different values
Conflicts(resolved) ==
    \E a, b \in 1..Len(resolved) :
        /\ resolved[a].binding # resolved[b].binding
        /\ resolved[a].name = resolved[b].name
        /\ resolved[a].value # resolved[b].value

\* mutant of applyDefaults: the default of a declared param replaces its value
applyDefaultsOverriding(mapping, declared) ==
    LET defaulted == {k \in 1..Len(declared) : declared[k].default # Nil}
        names == DOMAIN mapping \cup {declared[k].name : k \in defaulted}
    IN  [name \in names |->
            IF \E k \in defaulted : declared[k].name = name
            THEN Val(declared[CHOOSE k \in defaulted : declared[k].name = name].default)
            ELSE mapping[name]]

\* the defaults of the declared params the mapping does not have
applyDefaults(mapping, declared) ==
    LET defaulted == {k \in 1..Len(declared) : declared[k].default # Nil}
        names == DOMAIN mapping \cup {declared[k].name : k \in defaulted}
    IN  [name \in names |->
            IF name \in DOMAIN mapping THEN mapping[name]
            ELSE Val(declared[CHOOSE k \in defaulted : declared[k].name = name].default)]

\* ResolveParams: the error, or the map from every param's name to its value
ResolveParamsOf(bindings, body, header, declared) ==
    LET merged == MergeBindingParams(bindings)
        values == [k \in 1..Len(merged) |-> applyEventToParam(merged[k].value, body, header)]
    IN  IF \E k \in 1..Len(merged) : values[k] = Nil
        THEN [err |-> "other", params |-> [name \in {} |-> ""]]
        ELSE LET resolved == [k \in 1..Len(merged) |->
                                 [name |-> merged[k].name, value |-> Val(values[k]),
                                  binding |-> merged[k].binding]]
                 mapping == [name \in {resolved[k].name : k \in 1..Len(resolved)} |->
                                resolved[CHOOSE k \in 1..Len(resolved) :
                                            resolved[k].name = name].value]
             IN  IF Conflicts(resolved)
                 THEN [err |-> "other", params |-> [name \in {} |-> ""]]
                 ELSE [err |-> "nil", params |-> applyDefaults(mapping, declared)]

\* how many times ResolveResources calls UID() for a template
UidDraws(template) == 1

\* mutant of UidOf: every occurrence of $(uid) has a draw of its own
UidPerOccurrence(stream, d, f, k) == stream[((f + k) % Len(stream)) + 1]

\* the text that replaces the $(uid) that is piece k of field f of document d
UidOf(stream, d, f, k) == stream[1]

RECURSIVE applyPieces(_, _, _)
\* the text of a field: every $(params.NAME) the map has replaced by its
\* value, the $(uid) at position k by uidAt[k]
applyPieces(field, params, uidAt) ==
    IF Len(field) = 0 THEN ""
    ELSE LET k == Len(field)
             piece == field[k]
             text == IF piece[1] = "uid" THEN uidAt[k]
                     ELSE IF piece[1] = "params"
                          THEN IF piece[2] \in DOMAIN params THEN params[piece[2]]
                               ELSE "$(params." \o piece[2] \o ")"
                          ELSE piece[2]
         IN  applyPieces(SubSeq(field, 1, k - 1), params, uidAt) \o text

\* ResolveResources: every document of the template, rendered
ResolveResourcesOf(template, params, stream) ==
    [d \in 1..Len(template.resourcetemplates) |->
        [f \in 1..Len(template.resourcetemplates[d]) |->
            applyPieces(template.resourcetemplates[d][f], params,
                        [k \in 1..Len(template.resourcetemplates[d][f]) |->
                            UidOf(stream, d, f, k)])]]

InitTemplate ==
    /\ InitWith({<<>>})
    /\ NoChainCall
    /\ NoGitLabCall
    /\ NoMoreCallsBut("template")
    /\ tplIn \in TemplateInputs
    /\ tplPc = "resolveParams"
    /\ tplParams = Nil
    /\ tplUids = <<>>
    /\ tplDocs = <<>>
    /\ tplCreated = 0
    /\ tplErr = "nil"
    /\ tplCode = 0

\* params, err := template.ResolveParams(...); if err != nil { return err }
TplResolveParams ==
    /\ tplPc = "resolveParams"
    /\ LET r == ResolveParamsOf(tplIn.bindings, tplIn.body, tplIn.header,
                                tplIn.template.params)
       IN  /\ tplParams' = Some(r)
           /\ tplErr' = r.err
           /\ tplPc' = IF r.err # "nil" THEN "report" ELSE "resolveResources"
    /\ UNCHANGED <<tplIn, tplUids, tplDocs, tplCreated, tplCode>>
    /\ UNCHANGED notTemplate

\* resources := template.ResolveResources(rt.TriggerTemplate, params)
TplResolveResources ==
    /\ tplPc = "resolveResources"
    /\ \E stream \in [1..MaxUidStream -> UIDs] :
          /\ tplUids' = SubSeq(stream, 1, UidDraws(tplIn.template))
          /\ tplDocs' = ResolveResourcesOf(tplIn.template, Val(tplParams).params, stream)
    /\ tplPc' = "create"
    /\ UNCHANGED <<tplIn, tplParams, tplCreated, tplErr, tplCode>>
    /\ UNCHANGED notTemplate

\* CreateResources: one resource of the loop, or the error it returns with
TplCreate ==
    /\ tplPc = "create"
    /\ tplCreated < Len(tplDocs)
    /\ \E err \in {"nil"} \cup ErrClasses :
          IF err = "nil"
          THEN tplCreated' = tplCreated + 1 /\ UNCHANGED <<tplPc, tplErr>>
          ELSE tplErr' = err /\ tplPc' = "report" /\ UNCHANGED tplCreated
    /\ UNCHANGED <<tplIn, tplParams, tplUids, tplDocs, tplCode>>
    /\ UNCHANGED notTemplate

\* CreateResources returns nil after the last resource
TplCreated ==
    /\ tplPc = "create"
    /\ tplCreated = Len(tplDocs)
    /\ tplPc' = "report"
    /\ UNCHANGED <<tplIn, tplParams, tplUids, tplDocs, tplCreated, tplErr, tplCode>>
    /\ UNCHANGED notTemplate

\* the goroutine sends the code for the error processTrigger returned
TplReport ==
    /\ tplPc = "report"
    /\ tplCode' = StatusFor(tplErr)
    /\ tplPc' = "done"
    /\ UNCHANGED <<tplIn, tplParams, tplUids, tplDocs, tplCreated, tplErr>>
    /\ UNCHANGED notTemplate

NextTemplate ==
    \/ TplResolveParams
    \/ TplResolveResources
    \/ TplCreate
    \/ TplCreated
    \/ TplReport

SpecTemplate == InitTemplate /\ [][NextTemplate]_vars

\* ResolveParams returned the params and ResolveResources the documents
Rendered ==
    /\ tplPc \in {"create", "report", "done"}
    /\ tplParams # Nil
    /\ Val(tplParams).err = "nil"

\* the fields of a resource template that have a $(uid)
UidFields(doc) == {f \in 1..Len(doc) : \E k \in 1..Len(doc[f]) : doc[f][k] = UidVar}

\* the document with the one text u in the place of every $(uid)
WithOneUid(doc, params, u) ==
    [f \in 1..Len(doc) |-> applyPieces(doc[f], params, [k \in 1..Len(doc[f]) |-> u])]

(***************************************************************************)
(* C31: in one rendering of a resource template every occurrence of $(uid) *)
(* of the document, in keys as well as in values, is replaced by the same  *)
(* string: every rendered document is its template with one string in the  *)
(* place of all its $(uid).                                                *)
(***************************************************************************)
C31_OneUidPerDocument ==
    Rendered =>
        \A d \in 1..Len(tplDocs) :
            \E u \in UIDs :
                tplDocs[d] = WithOneUid(tplIn.template.resourcetemplates[d],
                                        Val(tplParams).params, u)

\* {"rt1": "$(params.param1)-$(uid)", "$(uid)": "$(uid)"} has been rendered as
\* {"rt1": "bar-uid-a", "uid-a": "uid-a"}
C31_Witness ==
    /\ Rendered
    /\ tplIn.template = MultipleUidTemplate
    /\ UidFields(tplIn.template.resourcetemplates[1]) = {2, 3, 4}
    /\ tplDocs[1] = <<"rt1", "bar-uid-a", "uid-a", "uid-a">>

(***************************************************************************)
(* C32: when ResolveResources renders several resource templates of one    *)
(* TriggerTemplate, every template with a $(uid) gets a draw of UID() of   *)
(* its own: the call makes at least as many draws as it renders documents  *)
(* with a $(uid).                                                          *)
(***************************************************************************)
C32_OwnDrawPerTemplate ==
    Rendered =>
        Len(tplUids) >= Cardinality({d \in 1..Len(tplDocs) :
                                        UidFields(tplIn.template.resourcetemplates[d]) # {}})

\* ResolveParams has returned
ParamsReturned == tplParams # Nil

\* the goroutine creates no resource and reports 202
NothingCreatedAnd202 ==
    /\ tplCreated = 0
    /\ tplDocs = <<>>
    /\ tplCode \in {0, StatusAccepted}
    /\ tplPc = "done" => tplCode = StatusAccepted

\* what the param k of binding b resolves to against the event
ResolvedValue(b, k) == applyEventToParam(tplIn.bindings[b][k].value, tplIn.body, tplIn.header)

\* two bindings declare the same param name with different resolved values
ConflictingBindings ==
    \E a, b \in 1..Len(tplIn.bindings) :
        /\ a # b
        /\ \E p \in 1..Len(tplIn.bindings[a]), q \in 1..Len(tplIn.bindings[b]) :
              /\ tplIn.bindings[a][p].name = tplIn.bindings[b][q].name
              /\ ResolvedValue(a, p) # Nil
              /\ ResolvedValue(b, q) # Nil
              /\ ResolvedValue(a, p) # ResolvedValue(b, q)

(***************************************************************************)
(* C33: ResolveParams fails for every binding set in which two bindings    *)
(* declare the same param name with different resolved values, and the     *)
(* goroutine then creates no resource and reports 202.                     *)
(***************************************************************************)
C33_ConflictFails ==
    ConflictingBindings =>
        /\ ParamsReturned => Val(tplParams).err # "nil"
        /\ NothingCreatedAnd202

\* param1 is "foo" in one binding and "bar" in the other; the goroutine has
\* reported 202
C33_Witness ==
    /\ ConflictingBindings
    /\ tplIn.bindings = <<Binding("param1", <<Lit("foo")>>), Binding("param1", <<Lit("bar")>>)>>
    /\ ParamsReturned
    /\ tplPc = "done"
    /\ tplCode = StatusAccepted
    /\ tplCreated = 0

\* the names the bindings produce
BoundNames ==
    UNION {{tplIn.bindings[b][k].name : k \in 1..Len(tplIn.bindings[b])} :
              b \in 1..Len(tplIn.bindings)}

(***************************************************************************)
(* C34: after ResolveParams every param the template declares with a       *)
(* default and that no binding produced has that default, and every param  *)
(* a binding produced has the binding's value, with or without a declared  *)
(* default.                                                                *)
(***************************************************************************)
C34_DefaultsFillAbsent ==
    (ParamsReturned /\ Val(tplParams).err = "nil") =>
        LET params == Val(tplParams).params
            declared == tplIn.template.params
        IN  /\ \A k \in 1..Len(declared) :
                  (declared[k].default # Nil /\ declared[k].name \notin BoundNames) =>
                      /\ declared[k].name \in DOMAIN params
                      /\ params[declared[k].name] = Val(declared[k].default)
            /\ \A b \in 1..Len(tplIn.bindings) :
                  \A k \in 1..Len(tplIn.bindings[b]) :
                      /\ tplIn.bindings[b][k].name \in DOMAIN params
                      /\ Some(params[tplIn.bindings[b][k].name]) = ResolvedValue(b, k)

\* param1 and param2 both have a default; the one binding produces param1
C34_Witness ==
    /\ ParamsReturned
    /\ Val(tplParams).err = "nil"
    /\ tplIn.template = DefaultsTemplate
    /\ BoundNames = {"param1"}
    /\ Val(tplParams).params["param1"] = "bar"
    /\ Val(tplParams).params["param2"] = "default2"

\* a binding param refers to a body path the event body does not have or to
\* a header the event headers do not have
RefersToAbsent ==
    \E b \in 1..Len(tplIn.bindings) :
        \E k \in 1..Len(tplIn.bindings[b]) :
            \E n \in 1..Len(tplIn.bindings[b][k].value) :
                LET piece == tplIn.bindings[b][k].value[n]
                IN  \/ piece[1] = "body" /\ piece[2] \notin DOMAIN tplIn.body
                    \/ piece[1] = "header" /\ piece[2] \notin DOMAIN tplIn.header

(***************************************************************************)
(* C35: when a binding param refers to a body path absent from the event   *)
(* body or to a header absent from the event headers, ResolveParams        *)
(* returns an error, whatever else resolves in the same param, and the     *)
(* goroutine creates no resource and reports 202.                          *)
(***************************************************************************)
C35_AbsentVariableFails ==
    RefersToAbsent =>
        /\ ParamsReturned => Val(tplParams).err # "nil"
        /\ NothingCreatedAnd202

\* $(header.one)-$(header.bogus) against headers that have "one": the
\* goroutine has reported 202
C35_Witness ==
    /\ RefersToAbsent
    /\ "one" \in DOMAIN tplIn.header
    /\ tplIn.bindings = <<Binding("param3", <<HeaderVar("one"), Lit("-"), HeaderVar("bogus")>>)>>
    /\ ParamsReturned
    /\ tplPc = "done"
    /\ tplCode = StatusAccepted
    /\ tplCreated = 0

(***************************************************************************)
(* The dispatcher and the goroutines of one event, on listeners with one   *)
(* trigger of any kind followed by triggers with an inline template and no *)
(* interceptors.                                                           *)
(***************************************************************************)
MaxDispatched == 2

DispatchListeners ==
    {<<>>} \cup {<<first>> \o [n \in 1..more |-> InlineTrigger] :
                    first \in TriggerKinds, more \in 0..(MaxDispatched - 1)}

InitDispatch ==
    /\ InitWith(DispatchListeners)
    /\ NoChainCall
    /\ NoGitLabCall
    /\ NoMoreCalls

SpecDispatch == InitDispatch /\ [][Next]_vars

RECURSIVE SentOf(_, _)
\* how many goroutines of the set S of worker states have sent the code c
SentOf(S, c) ==
    IF S = {} THEN 0
    ELSE LET w == CHOOSE x \in S : TRUE
         IN  (IF w.sends > 0 /\ w.sent = c THEN CopiesIn(w, workers) ELSE 0)
             + SentOf(S \ {w}, c)

\* how many codes c wait in the channel
InChannel(c) == Cardinality({n \in 1..Len(result) : result[n] = c})

\* how many codes c the dispatcher has taken from the channel
Taken(c) == SentOf(Workers, c) - InChannel(c)

(***************************************************************************)
(* C36: when goroutines of one event report 401 and 403, the response      *)
(* status is the one of the two codes the dispatcher takes from the        *)
(* channel first, and after it the dispatcher takes no further code: of    *)
(* all the 401 and 403 sent it has taken at most one, and once it has      *)
(* taken one it has left the receive loop with that code, which is the     *)
(* status of the response.                                                 *)
(***************************************************************************)
C36_FirstAuthCodeWins ==
    /\ Taken(StatusUnauthorized) + Taken(StatusForbidden) <= 1
    /\ \A c \in {StatusUnauthorized, StatusForbidden} :
          Taken(c) = 1 =>
              /\ StoppedReceiving
              /\ code = c
              /\ received = i + 1
              /\ Responded => respStatus = c

\* one goroutine sent 401, another 403; the dispatcher took the 401 and
\* answered with it, the 403 is left in the channel
C36_Witness ==
    /\ SentOf(Workers, StatusUnauthorized) = 1
    /\ SentOf(Workers, StatusForbidden) = 1
    /\ Taken(StatusUnauthorized) = 1
    /\ InChannel(StatusForbidden) = 1
    /\ pc = "done"
    /\ respStatus = StatusUnauthorized

\* the other outcome of the same two reports: the dispatcher took the 403
C36_ForbiddenFirst ==
    /\ SentOf(Workers, StatusUnauthorized) = 1
    /\ SentOf(Workers, StatusForbidden) = 1
    /\ Taken(StatusForbidden) = 1
    /\ InChannel(StatusUnauthorized) = 1
    /\ pc = "done"
    /\ respStatus = StatusForbidden

\* a worker has reported 401 or 403
AuthFailureReported ==
    SentOf(Workers, StatusUnauthorized) + SentOf(Workers, StatusForbidden) > 0

(***************************************************************************)
(* C37: when no worker reports 401 or 403, the dispatcher writes the       *)
(* response only after it has received one code from each of the N         *)
(* workers, every one of which has then returned; in no execution does it  *)
(* receive more than N codes.                                              *)
(***************************************************************************)
C37_AllCodesBeforeResponse ==
    /\ received <= N
    /\ (Accepted /\ StoppedReceiving /\ ~AuthFailureReported) =>
          /\ received = N
          /\ BagCardinality(workers) = N
          /\ \A w \in Workers : w.pc = "done" /\ w.sends = 1

\* two triggers, neither reported 401 or 403: both codes were received
\* before the status was written
C37_Witness ==
    /\ nTriggers = 2
    /\ ~AuthFailureReported
    /\ Responded
    /\ received = 2
    /\ \E w \in Workers : w.created > 0

\* the next step of goroutine w, short of its send
WorkerStep(w) ==
    \/ ResolveTriggerRef(w)
    \/ Intercept(w)
    \/ ResolveTrigger(w)
    \/ ResolveParams(w)
    \/ OverrideAuthentication(w)
    \/ Create(w)

(***************************************************************************)
(* C38: the dispatcher never cancels a worker.  Whatever the dispatcher    *)
(* has done, short-circuited on 401 or 403 or written the whole response,  *)
(* every goroutine that has not reached its send can take its next step,   *)
(* so a resource of the event can be created after the response.           *)
(***************************************************************************)
C38_WorkersNeverCancelled ==
    \A w \in Workers : w.pc \notin {"report", "done"} => ENABLED WorkerStep(w)

\* the dispatcher short-circuited and the whole response is written; a
\* goroutine of the event is in the loop of CreateResources, no resource
\* created yet
C38_Witness ==
    /\ pc = "done"
    /\ respStatus \in {StatusUnauthorized, StatusForbidden}
    /\ received < nTriggers
    /\ \E w \in Workers : w.pc = "create" /\ w.created = 0 /\ ENABLED Create(w)

(***************************************************************************)
(* Termination.  The listeners of SpecDispatch and of SpecWide and one     *)
(* whose triggers, more than the channel has slots, all name a Trigger     *)
(* that does not exist, so that none of them reports 401 or 403.  Every    *)
(* step of HandleEvent and of its goroutines terminates and the scheduler  *)
(* runs what is runnable: some enabled step is eventually taken.           *)
(***************************************************************************)
\* ResultCap + 1 triggers that each report 202
MissingListener == [n \in 1..(ResultCap + 1) |-> MissingTrigger]

InitTermination ==
    /\ InitWith(DispatchListeners \cup {WideListener, MissingListener}
                    \cup SeqsUpTo(TriggerKinds \cup {DeniedTrigger}, 1))
    /\ NoChainCall
    /\ NoGitLabCall
    /\ NoMoreCalls

SpecTermination == InitTermination /\ [][Next]_vars /\ WF_vars(Next)

(***************************************************************************)
(* C39: provided every step of every worker terminates, HandleEvent        *)
(* terminates for every trigger count and every interleaving, and it       *)
(* commits the response status exactly once on every path: it reaches its  *)
(* end, at its end the status is committed, and once the status is         *)
(* committed HandleEvent is past every call of WriteHeader.                *)
(***************************************************************************)
C39_TerminatesAndCommitsOnce ==
    /\ <>(pc = "done")
    /\ [](pc = "done" => Responded)
    /\ [](Responded => pc \in {"setHeader", "encode", "done"})

\* HandleEvent has returned after it received the codes of all its workers,
\* one more than the channel has slots
C39_Witness ==
    /\ pc = "done"
    /\ nTriggers = ResultCap + 1
    /\ received = nTriggers
    /\ respStatus = StatusAccepted

(***************************************************************************)
(* interceptors.GetSecretToken, called one call after the other for one    *)
(* request: a request prepared by WithCache, a request without a cache in  *)
(* its context, or no request at all.  The store answers every Get with an *)
(* error or with the Secret as it is at that moment.                       *)
(***************************************************************************)
MaxSecretCalls == 3

\* the requests GetSecretToken is called with
SecretRequests == {"cached", "plain", "nil"}

SecretNames == {"gh", "gl"}

\* Secret.Data of the answers of the store; without the key the value is nil
SecretData == {[key \in {"token"} |-> "s1"], [key \in {"token"} |-> "s2"],
               [key \in {} |-> ""]}

\* cs.CoreV1().Secrets(ns).Get(...): an error or the Secret
StoreAnswers == {[err |-> "other", Data |-> [key \in {} |-> ""]]}
                    \cup {[err |-> "nil", Data |-> d] : d \in SecretData}

\* path.Join("secret", ns, name, key), for elements without "/" or dots
cacheKeyOf(ns, sr) == "secret/" \o ns \o "/" \o sr.SecretName \o "/" \o sr.SecretKey

\* WithCache(req): the context gets an empty map under requestCacheKey
WithCache == Some([key \in {} |-> ""])

\* mutant of getCache: the map of the context is never found
getCacheAlwaysFresh(req, ctxCache) == [key \in {} |-> ""]

\* getCache(req): the map of the context, or a new empty map
getCache(req, ctxCache) == IF ctxCache # Nil THEN Val(ctxCache) ELSE [key \in {} |-> ""]

\* GetSecretToken(req, cs, sr, ns) against the answer the store would give:
\* what the call returns, whether it asked the store, and the map it leaves
\* in the context
GetSecretTokenOf(req, ctxCache, sr, ns, answer) ==
    LET cacheKey == cacheKeyOf(ns, sr)
        cache == IF req # "nil" THEN getCache(req, ctxCache) ELSE [key \in {} |-> ""]
        secretValue == IF sr.SecretKey \in DOMAIN answer.Data
                       THEN answer.Data[sr.SecretKey] ELSE ""
    IN  IF req # "nil" /\ cacheKey \in DOMAIN cache
        THEN [key |-> cacheKey, queried |-> FALSE, err |-> "nil",
              value |-> cache[cacheKey], ctx |-> ctxCache]
        ELSE IF answer.err # "nil"
        THEN [key |-> cacheKey, queried |-> TRUE, err |-> answer.err,
              value |-> "", ctx |-> ctxCache]
        ELSE [key |-> cacheKey, queried |-> TRUE, err |-> "nil",
              value |-> secretValue,
              ctx |-> IF req # "nil" /\ ctxCache # Nil
                      THEN Some(MapSet(cache, cacheKey, secretValue))
                      ELSE ctxCache]

InitSecrets ==
    /\ InitWith({<<>>})
    /\ NoChainCall
    /\ NoGitLabCall
    /\ NoMoreCallsBut("secrets")
    /\ stIn \in {Some(r) : r \in SecretRequests}
    /\ stCache = IF stIn = Some("cached") THEN WithCache ELSE Nil
    /\ stCalls = <<>>

\* one call of GetSecretToken, from its first statement to its return
CallGetSecretToken ==
    /\ Len(stCalls) < MaxSecretCalls
    /\ \E name \in SecretNames, answer \in StoreAnswers :
          LET r == GetSecretTokenOf(Val(stIn), stCache, SecretRef(name), "ns", answer)
          IN  /\ stCalls' = Append(stCalls, [key |-> r.key, queried |-> r.queried,
                                             err |-> r.err, value |-> r.value,
                                             stored |-> answer])
              /\ stCache' = r.ctx
    /\ UNCHANGED stIn
    /\ UNCHANGED notSecrets

NextSecrets == CallGetSecretToken

SpecSecrets == InitSecrets /\ [][NextSecrets]_vars

\* the calls so far that asked the store for the secret under cache key k
QueriesFor(k) == {n \in 1..Len(stCalls) : stCalls[n].key = k /\ stCalls[n].queried}

\* those of them the store answered without error
AnsweredFor(k) == {n \in QueriesFor(k) : stCalls[n].err = "nil"}

SecretKeysCalled == {stCalls[n].key : n \in 1..Len(stCalls)}

\* the value the store's answer to call n has under the key asked for
StoredValue(n) ==
    IF "token" \in DOMAIN stCalls[n].stored.Data THEN stCalls[n].stored.Data["token"] ELSE ""

\* the cache of the context holds what the answered lookups returned and
\* nothing else; a failed lookup leaves it as it was
CacheHoldsAnswered ==
    stIn = Some("cached") =>
        /\ DOMAIN Val(stCache) = {k \in SecretKeysCalled : AnsweredFor(k) # {}}
        /\ \A k \in DOMAIN Val(stCache) :
              \A n \in AnsweredFor(k) : Val(stCache)[k] = StoredValue(n)

\* without a cache in the context every call asks the store
NoCacheAlwaysQueries ==
    stIn # Some("cached") =>
        /\ stCache = Nil
        /\ \A n \in 1..Len(stCalls) : stCalls[n].queried

\* C40 as stated: with a cache, the calls with one namespace, name and key
\* ask the store at most once.
C40_AtMostOneQuery ==
    /\ stIn = Some("cached") =>
          \A k \in SecretKeysCalled :
              /\ Cardinality(QueriesFor(k)) <= 1
              /\ \A n \in 1..Len(stCalls) :
                    (stCalls[n].key = k /\ stCalls[n].err = "nil") =>
                        \A m \in AnsweredFor(k) : stCalls[n].value = StoredValue(m)
    /\ CacheHoldsAnswered
    /\ NoCacheAlwaysQueries

(***************************************************************************)
(* C40, amended: for a request prepared with WithCache, of the calls with  *)
(* one namespace, secret name and secret key at most one gets an answer    *)
(* from the store, no call after that one asks the store, and every call   *)
(* that returns bytes returns the bytes of that answer; a lookup that      *)
(* fails stores nothing, so the next call asks again; without a cache in   *)
(* the context every call asks the store.                                  *)
(***************************************************************************)
C40_AtMostOneAnsweredQuery ==
    /\ stIn = Some("cached") =>
          \A k \in SecretKeysCalled :
              /\ Cardinality(AnsweredFor(k)) <= 1
              /\ \A m \in AnsweredFor(k) :
                    \A n \in 1..Len(stCalls) :
                        (stCalls[n].key = k /\ n > m) =>
                            /\ ~stCalls[n].queried
                            /\ stCalls[n].err = "nil"
                            /\ stCalls[n].value = StoredValue(m)
              /\ \A n \in 1..Len(stCalls) :
                    (stCalls[n].key = k /\ stCalls[n].err = "nil") =>
                        \E m \in AnsweredFor(k) : stCalls[n].value = StoredValue(m)
    /\ CacheHoldsAnswered
    /\ NoCacheAlwaysQueries

\* three calls for the same secret with a cache: the first lookup failed, the
\* second was answered "s1", the third returned "s1" from the cache although
\* the store had "s2" by then
C40_Witness ==
    /\ stIn = Some("cached")
    /\ Len(stCalls) = 3
    /\ \A n \in 1..3 : stCalls[n].key = "secret/ns/gh/token"
    /\ stCalls[1].queried /\ stCalls[1].err = "other"
    /\ stCalls[2].queried /\ stCalls[2].value = "s1"
    /\ ~stCalls[3].queried /\ stCalls[3].value = "s1" /\ StoredValue(3) = "s2"

====
